---- MODULE Spec2Model ----
(***************************************************************************)
(* Skill discovery and validation pipeline of opencode-skills              *)
(* (src/index.ts): generateToolName, parseSkill, findSkillFiles and         *)
(* discoverSkills, over an explicit model of the filesystem.               *)
(*                                                                         *)
(* Strings are sequences of one-character strings, paths are sequences of  *)
(* path segments (absolute and normalised), so that the regular            *)
(* expression, the length rule, trim(), basename/dirname/relative and the  *)
(* hyphen replacement are computed, not assumed.                           *)
(***************************************************************************)
EXTENDS Integers, Sequences, FiniteSets, TLC

VARIABLES
    fs,          \* the filesystem: real path -> node
    basePaths,   \* discoverSkills' argument
    pc,          \* position of the discovery pass
    bi,          \* index of the base path being processed (for ... of basePaths)
    queue,       \* findSkillFiles: pending directories (a stack)
    visited,     \* findSkillFiles: canonical real paths already listed
    skillFiles,  \* findSkillFiles: marker files found so far
    matches,     \* discoverSkills: the list findSkillFiles returned
    mi,          \* index of the match being parsed
    skills,      \* discoverSkills: the accumulator
    origin,      \* history: for each element of skills, the index of its base path
    foundPath,   \* discoverSkills: some base path was scanned without a throw
    exc,         \* the error in flight between a throw and its catch
    log,         \* console.error / console.warn calls, in order
    listed,      \* history: real paths listed (readdir succeeded) in this traversal
    candidates,  \* history: every marker path yielded, with the index of its base path
    parsed,      \* history: the calls of parseSkill, with their arguments and outcome
    outcome,     \* "running", "returned" or "threw"
    plugin,      \* SkillsPlugin: "setup" until it returns its tools, then "ready"
    ri,          \* SkillsPlugin: index of the Skill being registered
    tools,       \* SkillsPlugin: the tools record, tool name -> tool
    call,        \* the invocation of a tool that is under way
    prompts,     \* the messages session.prompt has delivered, in order
    replies,     \* how the invocations ended, in order
    other,       \* the locals of a second call of discoverSkills, while it is suspended
    overlap      \* history: the two calls were both under way at some await

\* the state of SkillsPlugin and of the host that calls its tools
pluginVars == <<plugin, ri, tools, call, prompts, replies>>

\* the second call of discoverSkills
passVars == <<other, overlap>>

vars == <<fs, basePaths, pc, bi, queue, visited, skillFiles, matches, mi,
          skills, origin, foundPath, exc, log, listed, candidates, parsed,
          outcome, plugin, ri, tools, call, prompts, replies, other, overlap>>

-----------------------------------------------------------------------------
(* Bounds of the model *)

\* longest list of base directories handed to discoverSkills
MaxBases == 2

\* symbolic links followed while resolving one path before ELOOP
MaxLinkFollow == 3

\* invocations of registered tools by the host
MaxCalls == 1

(* Program constants *)

\* z.string().min(20) on description
DescMin == 20

\* z.string().min(1) on name
NameMin == 1

-----------------------------------------------------------------------------
(* Characters and strings *)

Lower == {"a", "b", "c", "d", "e", "f", "g", "h", "i", "j", "k", "l", "m",
          "n", "o", "p", "q", "r", "s", "t", "u", "v", "w", "x", "y", "z"}
Digit == {"0", "1", "2", "3", "4", "5", "6", "7", "8", "9"}
Hyphen == "-"
Underscore == "_"
Whitespace == {" ", "\n", "\t", "\r"}

Upper == {"A", "B", "C", "D", "E", "F", "G", "H", "I", "J", "K", "L", "M",
          "N", "O", "P", "Q", "R", "S", "T", "U", "V", "W", "X", "Y", "Z"}

\* the expression with the i flag: uppercase letters pass as well
MatchesNameRegexIgnoringCase(s) ==
    /\ Len(s) >= 1
    /\ \A i \in 1..Len(s) : s[i] \in Lower \cup Upper \cup Digit \cup {Hyphen}

\* /^[a-z0-9-]+$/ : one or more characters, each a lowercase letter, a digit
\* or a hyphen, anchored at both ends
MatchesNameRegex(s) ==
    /\ Len(s) >= 1
    /\ \A i \in 1..Len(s) : s[i] \in Lower \cup Digit \cup {Hyphen}

RECURSIVE TrimStart(_)
TrimStart(s) ==
    IF s # <<>> /\ Head(s) \in Whitespace THEN TrimStart(Tail(s)) ELSE s

RECURSIVE TrimEnd(_)
TrimEnd(s) ==
    IF s # <<>> /\ s[Len(s)] \in Whitespace
    THEN TrimEnd(SubSeq(s, 1, Len(s) - 1))
    ELSE s

\* trimStart() in the place of trim(): trailing whitespace stays
TrimStartOnly(s) == TrimStart(s)

\* String.prototype.trim
Trim(s) == TrimEnd(TrimStart(s))

RECURSIVE ReplaceFirstHyphen(_)
\* replace("-", "_") without the g flag: only the first hyphen is replaced
ReplaceFirstHyphen(s) ==
    IF s = <<>> THEN <<>>
    ELSE IF Head(s) = Hyphen THEN <<Underscore>> \o Tail(s)
    ELSE <<Head(s)>> \o ReplaceFirstHyphen(Tail(s))

\* str.replace(/-/g, "_")
ReplaceHyphens(s) == [i \in 1..Len(s) |-> IF s[i] = Hyphen THEN Underscore ELSE s[i]]

RECURSIVE JoinWith(_, _)
\* Array.prototype.join
JoinWith(parts, sepr) ==
    IF parts = <<>> THEN <<>>
    ELSE IF Len(parts) = 1 THEN parts[1]
    ELSE parts[1] \o sepr \o JoinWith(Tail(parts), sepr)

\* a string of n copies of character ch
Repeat(ch, n) == [i \in 1..n |-> ch]

-----------------------------------------------------------------------------
(* Names and paths *)

SKILL_MD == <<"S", "K", "I", "L", "L", ".", "m", "d">>
Dot == <<".">>
DotDot == <<".", ".">>

\* path.join(dir, name), for a single segment name
Join(p, name) == Append(p, name)

\* path.dirname of an absolute path: dirname("/") is "/"
Dirname(p) == IF p = <<>> THEN <<>> ELSE SubSeq(p, 1, Len(p) - 1)

\* path.basename: basename("/") is ""
Basename(p) == IF p = <<>> THEN <<>> ELSE p[Len(p)]

IsPrefix(a, b) == Len(a) <= Len(b) /\ SubSeq(b, 1, Len(a)) = a

RECURSIVE CommonLen(_, _)
CommonLen(a, b) ==
    IF a = <<>> \/ b = <<>> \/ Head(a) # Head(b) THEN 0
    ELSE 1 + CommonLen(Tail(a), Tail(b))

\* path.relative(from, to) as a list of segments: one ".." for every segment
\* of from below the common ancestor, then the rest of to
Relative(from, to) ==
    LET k == CommonLen(from, to)
    IN  [i \in 1..(Len(from) - k) |-> DotDot] \o SubSeq(to, k + 1, Len(to))

\* path.dirname of a relative path: "." when there is no parent segment
RelDirname(rel) ==
    IF Len(rel) <= 1 THEN <<Dot>> ELSE SubSeq(rel, 1, Len(rel) - 1)

-----------------------------------------------------------------------------
(* The filesystem *)

(* A node is a directory, a regular file or a symbolic link.                *)
(*   entries : what readdir(withFileTypes) returns for a directory: Dirents *)
(*             [name, type]; an entry whose path is no longer in fs is one  *)
(*             deleted between the listing and the descent                  *)
(*   perm    : "rwx"; "noread" (readdir fails, EACCES); "nosearch" (paths   *)
(*             through the directory fail, EACCES); "gone" (the directory   *)
(*             is removed after its realpath: readdir fails, ENOENT)        *)
(*   target  : a link's target path                                         *)
(*   text    : a file's text; readable: whether reading it succeeds         *)

NoText == [fm |-> "none", data |-> <<>>, post |-> <<>>]

DirNode(entries, perm) ==
    [kind |-> "dir", entries |-> entries, perm |-> perm, target |-> <<>>,
     text |-> NoText, readable |-> TRUE]

FileNode(text, readable) ==
    [kind |-> "file", entries |-> <<>>, perm |-> "rwx", target |-> <<>>,
     text |-> text, readable |-> readable]

LinkNode(target) ==
    [kind |-> "link", entries |-> <<>>, perm |-> "rwx", target |-> target,
     text |-> NoText, readable |-> TRUE]

Dirent(name, type) == [name |-> name, type |-> type]

Ok(v) == [ok |-> TRUE, val |-> v, code |-> "none"]
Err(code) == [ok |-> FALSE, val |-> <<>>, code |-> code]

Exists(f, p) == p = <<>> \/ p \in DOMAIN f

RECURSIVE Resolve(_, _, _, _)
\* Walk the segments of rest from the real directory cur, following links.
Resolve(f, cur, rest, fuel) ==
    IF rest = <<>> THEN Ok(cur)
    ELSE IF cur # <<>> /\ f[cur].kind = "file" THEN Err("ENOTDIR")
    ELSE IF cur # <<>> /\ f[cur].perm = "nosearch" THEN Err("EACCES")
    ELSE LET nxt == Append(cur, Head(rest))
         IN  IF nxt \notin DOMAIN f THEN Err("ENOENT")
             ELSE IF f[nxt].kind = "link"
                  THEN IF fuel = 0 THEN Err("ELOOP")
                       ELSE Resolve(f, <<>>, f[nxt].target \o Tail(rest), fuel - 1)
                  ELSE Resolve(f, nxt, Tail(rest), fuel)

\* fs.realpath(p): the canonical path, or the error it rejects with
Realpath(f, p) == Resolve(f, <<>>, p, MaxLinkFollow)

\* fs.stat(p): the node the path resolves to
Stat(f, p) ==
    LET r == Realpath(f, p)
    IN  IF ~r.ok THEN r
        ELSE IF r.val = <<>> THEN Ok(DirNode(<<>>, "rwx"))
        ELSE Ok(f[r.val])

\* fs.readdir(p, {withFileTypes: true})
Readdir(f, p) ==
    LET r == Realpath(f, p)
    IN  IF ~r.ok THEN r
        ELSE IF r.val = <<>> THEN Err("EACCES")
        ELSE LET n == f[r.val]
             IN  IF n.kind # "dir" THEN Err("ENOTDIR")
                 ELSE IF n.perm = "gone" THEN Err("ENOENT")
                 ELSE IF n.perm = "noread" THEN Err("EACCES")
                 ELSE Ok(n.entries)

\* Bun.file(p).text()
ReadText(f, p) ==
    LET r == Realpath(f, p)
    IN  IF ~r.ok THEN r
        ELSE IF r.val = <<>> THEN Err("EISDIR")
        ELSE LET n == f[r.val]
             IN  IF n.kind # "file" THEN Err("EISDIR")
                 ELSE IF ~n.readable THEN Err("EACCES")
                 ELSE Ok(n.text)

-----------------------------------------------------------------------------
(* Marker files: header and body *)

(* A header value is absent, a string, a non-string scalar, a list of      *)
(* values or a mapping (a list of [k, val] pairs).                          *)
Absent == [t |-> "absent", v |-> <<>>]
Str(s) == [t |-> "str", v |-> s]
Num == [t |-> "num", v |-> <<>>]
List(xs) == [t |-> "list", v |-> xs]
Map(kvs) == [t |-> "map", v |-> kvs]

Header(name, description, license, allowedTools, metadata, extra) ==
    [name |-> name, description |-> description, license |-> license,
     allowedTools |-> allowedTools, metadata |-> metadata, extra |-> extra]

EmptyHeader == Header(Absent, Absent, Absent, Absent, Absent, Absent)

(* The text of a file: fm says whether it opens with a delimited header    *)
(* block ("yaml"), with a header block that is not valid YAML ("bad"), or   *)
(* with none ("none"); data is what the block parses to; post is the text   *)
(* after the closing delimiter (the whole text when there is no block).     *)
Text(fm, data, post) == [fm |-> fm, data |-> data, post |-> post]

\* matter(content): gray-matter drops the header block and the line break
\* that ends its closing delimiter; it throws on a block that is not YAML
Matter(text) ==
    IF text.fm = "bad" THEN Err("YAMLException")
    ELSE IF text.fm = "none"
    THEN Ok([data |-> EmptyHeader, content |-> text.post])
    ELSE LET p1 == IF text.post # <<>> /\ Head(text.post) = "\r"
                   THEN Tail(text.post) ELSE text.post
             p2 == IF p1 # <<>> /\ Head(p1) = "\n" THEN Tail(p1) ELSE p1
         IN  Ok([data |-> text.data, content |-> p2])

Issue(field, msg) == [field |-> field, msg |-> msg]

\* z.string() with its checks: every failed check adds an issue
NameIssues(val) ==
    IF val.t = "absent" THEN <<Issue("name", "Required")>>
    ELSE IF val.t # "str" THEN <<Issue("name", "Expected string")>>
    ELSE (IF MatchesNameRegex(val.v) THEN <<>>
          ELSE <<Issue("name", "Name must be lowercase alphanumeric with hyphens")>>)
         \o (IF Len(val.v) >= NameMin THEN <<>>
             ELSE <<Issue("name", "Name cannot be empty")>>)

\* the length rule off by one: 19 characters pass
DescriptionIssuesOffByOne(val) ==
    IF val.t = "absent" THEN <<Issue("description", "Required")>>
    ELSE IF val.t # "str" THEN <<Issue("description", "Expected string")>>
    ELSE IF Len(val.v) >= DescMin - 1 THEN <<>>
    ELSE <<Issue("description",
                 "Description must be at least 20 characters for discoverability")>>

DescriptionIssues(val) ==
    IF val.t = "absent" THEN <<Issue("description", "Required")>>
    ELSE IF val.t # "str" THEN <<Issue("description", "Expected string")>>
    ELSE IF Len(val.v) >= DescMin THEN <<>>
    ELSE <<Issue("description",
                 "Description must be at least 20 characters for discoverability")>>

LicenseIssues(val) ==
    IF val.t \in {"absent", "str"} THEN <<>>
    ELSE <<Issue("license", "Expected string")>>

AllowedToolsIssues(val) ==
    IF val.t = "absent" THEN <<>>
    ELSE IF val.t # "list" THEN <<Issue("allowed-tools", "Expected array")>>
    ELSE IF \A i \in 1..Len(val.v) : val.v[i].t = "str" THEN <<>>
    ELSE <<Issue("allowed-tools", "Expected string")>>

MetadataIssues(val) ==
    IF val.t = "absent" THEN <<>>
    ELSE IF val.t # "map" THEN <<Issue("metadata", "Expected object")>>
    ELSE IF \A i \in 1..Len(val.v) : val.v[i].val.t = "str" THEN <<>>
    ELSE <<Issue("metadata", "Expected string")>>

\* the schema closed (z.object(...).strict()): a key it does not name is an
\* issue
SchemaIssuesStrict(data) ==
    NameIssues(data.name) \o DescriptionIssues(data.description)
      \o LicenseIssues(data.license) \o AllowedToolsIssues(data.allowedTools)
      \o MetadataIssues(data.metadata)
      \o (IF data.extra.t = "absent" THEN <<>>
          ELSE <<Issue("", "Unrecognized key(s) in object")>>)

\* validation that aborts at the first field with an issue: the ZodError
\* carries the issues of that field alone
SchemaIssuesOfFirstField(data) ==
    IF NameIssues(data.name) # <<>> THEN NameIssues(data.name)
    ELSE IF DescriptionIssues(data.description) # <<>>
    THEN DescriptionIssues(data.description)
    ELSE IF LicenseIssues(data.license) # <<>> THEN LicenseIssues(data.license)
    ELSE IF AllowedToolsIssues(data.allowedTools) # <<>>
    THEN AllowedToolsIssues(data.allowedTools)
    ELSE MetadataIssues(data.metadata)

\* SkillFrontmatterSchema.parse(data): the issues of the ZodError, none when
\* the header conforms; keys the schema does not name are not looked at
SchemaIssues(data) ==
    NameIssues(data.name) \o DescriptionIssues(data.description)
      \o LicenseIssues(data.license) \o AllowedToolsIssues(data.allowedTools)
      \o MetadataIssues(data.metadata)

-----------------------------------------------------------------------------
(* Skills *)

SkillsPrefix == <<"s", "k", "i", "l", "l", "s", "_">>

\* dirname(skillPath) in the place of dirname(relative(baseDir, skillPath)):
\* the segments of the base directory get into the tool name
GenerateToolNameFromFullPath(skillPath, baseDir) ==
    SkillsPrefix \o ReplaceHyphens(JoinWith(Dirname(skillPath), <<Underscore>>))

\* generateToolName(skillPath, baseDir)
GenerateToolName(skillPath, baseDir) ==
    LET rel == Relative(baseDir, skillPath)
        dirPath == RelDirname(rel)
        components == SelectSeq(dirPath, LAMBDA c : c # Dot)
    IN  SkillsPrefix \o ReplaceHyphens(JoinWith(components, <<Underscore>>))

Skill(name, fullPath, toolName, description, allowedTools, metadata, license,
      content, path) ==
    [name |-> name, fullPath |-> fullPath, toolName |-> toolName,
     description |-> description, allowedTools |-> allowedTools,
     metadata |-> metadata, license |-> license, content |-> content,
     path |-> path]

NoSkill == Skill(<<>>, <<>>, <<>>, <<>>, Absent, Absent, Absent, <<>>, <<>>)

\* one console.error / console.warn call: what it is about and what it carries
LogEntry(kind, path, issues, names) ==
    [kind |-> kind, path |-> path, issues |-> issues, names |-> names]

Accepted(skill) == [ok |-> TRUE, skill |-> skill, logs |-> <<>>]
Rejected(entry) == [ok |-> FALSE, skill |-> NoSkill, logs |-> <<entry>>]

\* the identity cross-check left out
NameCheckDropped(name, skillDir) == TRUE

\* startsWith in the place of equality
NameStartsWithDir(name, skillDir) == IsPrefix(skillDir, name)

\* the name against the directory: frontmatter.name !== skillDir rejects
NameMatchesDir(name, skillDir) == name = skillDir

\* the name compared with the directory before the schema is applied: a
\* header that also violates the schema is rejected as a name mismatch
ParseSkillChecksNameFirst(f, skillPath, baseDir) ==
    LET rd == ReadText(f, skillPath)
    IN  IF ~rd.ok
        THEN Rejected(LogEntry("parse-error", skillPath, <<Issue("", rd.code)>>, <<>>))
        ELSE
        LET m == Matter(rd.val)
        IN  IF ~m.ok
            THEN Rejected(LogEntry("parse-error", skillPath, <<Issue("", m.code)>>, <<>>))
            ELSE
            LET data == m.val.data
                issues == SchemaIssues(data)
                skillDir == Basename(Dirname(skillPath))
            IN  IF data.name # Str(skillDir)
                THEN Rejected(LogEntry("name-mismatch", skillPath, <<>>,
                                       <<data.name.v, skillDir>>))
                ELSE IF issues # <<>>
                THEN Rejected(LogEntry("invalid-frontmatter", skillPath, issues, <<>>))
                ELSE Accepted(Skill(data.name.v,
                                    Dirname(skillPath),
                                    GenerateToolName(skillPath, baseDir),
                                    data.description.v,
                                    data.allowedTools,
                                    data.metadata,
                                    data.license,
                                    Trim(m.val.content),
                                    skillPath))

\* the name compared with the name of the real directory of the marker, the
\* target of the link the marker was reached through
ParseSkillChecksRealDir(f, skillPath, baseDir) ==
    LET rd == ReadText(f, skillPath)
    IN  IF ~rd.ok
        THEN Rejected(LogEntry("parse-error", skillPath, <<Issue("", rd.code)>>, <<>>))
        ELSE
        LET m == Matter(rd.val)
        IN  IF ~m.ok
            THEN Rejected(LogEntry("parse-error", skillPath, <<Issue("", m.code)>>, <<>>))
            ELSE
            LET data == m.val.data
                issues == SchemaIssues(data)
                skillDir == Basename(Dirname(Realpath(f, skillPath).val))
            IN  IF issues # <<>>
                THEN Rejected(LogEntry("invalid-frontmatter", skillPath, issues, <<>>))
                ELSE IF ~NameMatchesDir(data.name.v, skillDir)
                THEN Rejected(LogEntry("name-mismatch", skillPath, <<>>,
                                       <<data.name.v, skillDir>>))
                ELSE Accepted(Skill(data.name.v,
                                    Dirname(skillPath),
                                    GenerateToolName(skillPath, baseDir),
                                    data.description.v,
                                    data.allowedTools,
                                    data.metadata,
                                    data.license,
                                    Trim(m.val.content),
                                    skillPath))

\* parseSkill(skillPath, baseDir): a Skill, or null with what was logged
ParseSkill(f, skillPath, baseDir) ==
    LET rd == ReadText(f, skillPath)
    IN  IF ~rd.ok
        THEN Rejected(LogEntry("parse-error", skillPath, <<Issue("", rd.code)>>, <<>>))
        ELSE
        LET m == Matter(rd.val)
        IN  IF ~m.ok
            THEN Rejected(LogEntry("parse-error", skillPath, <<Issue("", m.code)>>, <<>>))
            ELSE
            LET data == m.val.data
                issues == SchemaIssues(data)
                skillDir == Basename(Dirname(skillPath))
            IN  IF issues # <<>>
                THEN Rejected(LogEntry("invalid-frontmatter", skillPath, issues, <<>>))
                ELSE IF ~NameMatchesDir(data.name.v, skillDir)
                THEN Rejected(LogEntry("name-mismatch", skillPath, <<>>,
                                       <<data.name.v, skillDir>>))
                ELSE Accepted(Skill(data.name.v,
                                    Dirname(skillPath),
                                    GenerateToolName(skillPath, baseDir),
                                    data.description.v,
                                    data.allowedTools,
                                    data.metadata,
                                    data.license,
                                    Trim(m.val.content),
                                    skillPath))

-----------------------------------------------------------------------------
(* findSkillFiles *)

RECURSIVE ScanEntriesStopAtMarker(_, _, _, _, _)
\* the loop over the entries ended (break) once the directory's marker is
\* found: what is listed after the marker is never pushed
ScanEntriesStopAtMarker(f, current, entries, q, sf) ==
    IF entries = <<>> THEN [queue |-> q, skillFiles |-> sf]
    ELSE
    LET entry == Head(entries)
        fullPath == Join(current, entry.name)
        rest == Tail(entries)
    IN  IF entry.type = "file" /\ entry.name = SKILL_MD
        THEN [queue |-> q, skillFiles |-> Append(sf, fullPath)]
        ELSE IF entry.type = "dir"
        THEN ScanEntriesStopAtMarker(f, current, rest, Append(q, fullPath), sf)
        ELSE IF entry.type = "link"
        THEN LET target == Realpath(f, fullPath)
                 stat == IF target.ok THEN Stat(f, target.val) ELSE target
             IN  IF ~target.ok \/ ~stat.ok
                 THEN ScanEntriesStopAtMarker(f, current, rest, q, sf)
                 ELSE IF stat.val.kind = "dir"
                 THEN ScanEntriesStopAtMarker(f, current, rest, Append(q, fullPath), sf)
                 ELSE IF stat.val.kind = "file" /\ entry.name = SKILL_MD
                 THEN [queue |-> q, skillFiles |-> Append(sf, fullPath)]
                 ELSE ScanEntriesStopAtMarker(f, current, rest, q, sf)
        ELSE ScanEntriesStopAtMarker(f, current, rest, q, sf)

RECURSIVE ScanEntriesPushesTarget(_, _, _, _, _)
\* a link is pushed, or yielded, as the real path it resolves to instead of
\* as the path of the link
ScanEntriesPushesTarget(f, current, entries, q, sf) ==
    IF entries = <<>> THEN [queue |-> q, skillFiles |-> sf]
    ELSE
    LET entry == Head(entries)
        fullPath == Join(current, entry.name)
        rest == Tail(entries)
    IN  IF entry.type = "file" /\ entry.name = SKILL_MD
        THEN ScanEntriesPushesTarget(f, current, rest, q, Append(sf, fullPath))
        ELSE IF entry.type = "dir"
        THEN ScanEntriesPushesTarget(f, current, rest, Append(q, fullPath), sf)
        ELSE IF entry.type = "link"
        THEN LET target == Realpath(f, fullPath)
                 stat == IF target.ok THEN Stat(f, target.val) ELSE target
             IN  IF ~target.ok \/ ~stat.ok
                 THEN ScanEntriesPushesTarget(f, current, rest, q, sf)
                 ELSE IF stat.val.kind = "dir"
                 THEN ScanEntriesPushesTarget(f, current, rest, Append(q, target.val), sf)
                 ELSE IF stat.val.kind = "file" /\ entry.name = SKILL_MD
                 THEN ScanEntriesPushesTarget(f, current, rest, q, Append(sf, target.val))
                 ELSE ScanEntriesPushesTarget(f, current, rest, q, sf)
        ELSE ScanEntriesPushesTarget(f, current, rest, q, sf)

RECURSIVE ScanEntriesIgnoresCase(_, _, _, _, _)
\* the marker filename compared without regard to case: skill.md is taken
\* for a marker as well
ScanEntriesIgnoresCase(f, current, entries, q, sf) ==
    IF entries = <<>> THEN [queue |-> q, skillFiles |-> sf]
    ELSE
    LET entry == Head(entries)
        fullPath == Join(current, entry.name)
        rest == Tail(entries)
        isMarker == entry.name \in {SKILL_MD, <<"s", "k", "i", "l", "l", ".", "m", "d">>}
    IN  IF entry.type = "file" /\ isMarker
        THEN ScanEntriesIgnoresCase(f, current, rest, q, Append(sf, fullPath))
        ELSE IF entry.type = "dir"
        THEN ScanEntriesIgnoresCase(f, current, rest, Append(q, fullPath), sf)
        ELSE IF entry.type = "link"
        THEN LET target == Realpath(f, fullPath)
                 stat == IF target.ok THEN Stat(f, target.val) ELSE target
             IN  IF ~target.ok \/ ~stat.ok
                 THEN ScanEntriesIgnoresCase(f, current, rest, q, sf)
                 ELSE IF stat.val.kind = "dir"
                 THEN ScanEntriesIgnoresCase(f, current, rest, Append(q, fullPath), sf)
                 ELSE IF stat.val.kind = "file" /\ isMarker
                 THEN ScanEntriesIgnoresCase(f, current, rest, q, Append(sf, fullPath))
                 ELSE ScanEntriesIgnoresCase(f, current, rest, q, sf)
        ELSE ScanEntriesIgnoresCase(f, current, rest, q, sf)

RECURSIVE ScanEntriesMatchesTargetName(_, _, _, _, _)
\* for a link the marker filename is looked for in the name of the target,
\* basename(target), instead of in the name of the entry
ScanEntriesMatchesTargetName(f, current, entries, q, sf) ==
    IF entries = <<>> THEN [queue |-> q, skillFiles |-> sf]
    ELSE
    LET entry == Head(entries)
        fullPath == Join(current, entry.name)
        rest == Tail(entries)
    IN  IF entry.type = "file" /\ entry.name = SKILL_MD
        THEN ScanEntriesMatchesTargetName(f, current, rest, q, Append(sf, fullPath))
        ELSE IF entry.type = "dir"
        THEN ScanEntriesMatchesTargetName(f, current, rest, Append(q, fullPath), sf)
        ELSE IF entry.type = "link"
        THEN LET target == Realpath(f, fullPath)
                 stat == IF target.ok THEN Stat(f, target.val) ELSE target
             IN  IF ~target.ok \/ ~stat.ok
                 THEN ScanEntriesMatchesTargetName(f, current, rest, q, sf)
                 ELSE IF stat.val.kind = "dir"
                 THEN ScanEntriesMatchesTargetName(f, current, rest, Append(q, fullPath), sf)
                 ELSE IF stat.val.kind = "file" /\ Basename(target.val) = SKILL_MD
                 THEN ScanEntriesMatchesTargetName(f, current, rest, q, Append(sf, fullPath))
                 ELSE ScanEntriesMatchesTargetName(f, current, rest, q, sf)
        ELSE ScanEntriesMatchesTargetName(f, current, rest, q, sf)

RECURSIVE ScanEntriesPrepends(_, _, _, _, _)
\* skillFiles.unshift in the place of skillFiles.push: a marker is put at
\* the head of the list
ScanEntriesPrepends(f, current, entries, q, sf) ==
    IF entries = <<>> THEN [queue |-> q, skillFiles |-> sf]
    ELSE
    LET entry == Head(entries)
        fullPath == Join(current, entry.name)
        rest == Tail(entries)
    IN  IF entry.type = "file" /\ entry.name = SKILL_MD
        THEN ScanEntriesPrepends(f, current, rest, q, <<fullPath>> \o sf)
        ELSE IF entry.type = "dir"
        THEN ScanEntriesPrepends(f, current, rest, Append(q, fullPath), sf)
        ELSE IF entry.type = "link"
        THEN LET target == Realpath(f, fullPath)
                 stat == IF target.ok THEN Stat(f, target.val) ELSE target
             IN  IF ~target.ok \/ ~stat.ok
                 THEN ScanEntriesPrepends(f, current, rest, q, sf)
                 ELSE IF stat.val.kind = "dir"
                 THEN ScanEntriesPrepends(f, current, rest, Append(q, fullPath), sf)
                 ELSE IF stat.val.kind = "file" /\ entry.name = SKILL_MD
                 THEN ScanEntriesPrepends(f, current, rest, q, <<fullPath>> \o sf)
                 ELSE ScanEntriesPrepends(f, current, rest, q, sf)
        ELSE ScanEntriesPrepends(f, current, rest, q, sf)

RECURSIVE ScanEntries(_, _, _, _, _)
\* for (const entry of entries): what is pushed on the stack and what is
\* yielded, entry by entry
ScanEntries(f, current, entries, q, sf) ==
    IF entries = <<>> THEN [queue |-> q, skillFiles |-> sf]
    ELSE
    LET entry == Head(entries)
        fullPath == Join(current, entry.name)
        rest == Tail(entries)
    IN  IF entry.type = "file" /\ entry.name = SKILL_MD
        THEN ScanEntries(f, current, rest, q, Append(sf, fullPath))
        ELSE IF entry.type = "dir"
        THEN ScanEntries(f, current, rest, Append(q, fullPath), sf)
        ELSE IF entry.type = "link"
        THEN LET target == Realpath(f, fullPath)
                 stat == IF target.ok THEN Stat(f, target.val) ELSE target
             IN  IF ~target.ok \/ ~stat.ok
                 THEN ScanEntries(f, current, rest, q, sf)
                 ELSE IF stat.val.kind = "dir"
                 THEN ScanEntries(f, current, rest, Append(q, fullPath), sf)
                 ELSE IF stat.val.kind = "file" /\ entry.name = SKILL_MD
                 THEN ScanEntries(f, current, rest, q, Append(sf, fullPath))
                 ELSE ScanEntries(f, current, rest, q, sf)
        ELSE ScanEntries(f, current, rest, q, sf)

WalkResult(q, v, sf, threw, logs, ls) ==
    [queue |-> q, visited |-> v, skillFiles |-> sf, threw |-> threw,
     logs |-> logs, listed |-> ls]

\* no cycle detection: no directory is ever taken as visited
NeverVisited(v, realCurrent) == FALSE

\* whether the directory whose canonical path is realCurrent is skipped
AlreadyVisited(v, realCurrent) == realCurrent \in v

\* the stack without the element queue.pop() returns
Popped(q) == SubSeq(q, 1, Len(q) - 1)

\* visited.add(current) in the place of visited.add(realCurrent): the set
\* holds the paths as they were pushed, not the canonical ones
WalkOnceMarksCurrent(f, basePath, q, v, sf) ==
    LET current == q[Len(q)]
        q1 == Popped(q)
        realCurrent == Realpath(f, current)
    IN  IF ~realCurrent.ok
        THEN IF current = basePath /\ realCurrent.code = "ENOENT"
             THEN WalkResult(q1, v, sf, "ENOENT", <<>>, <<>>)
             ELSE WalkResult(q1, v, sf, "none", <<>>, <<>>)
        ELSE IF AlreadyVisited(v, realCurrent.val)
        THEN WalkResult(q1, v, sf, "none", <<>>, <<>>)
        ELSE
        LET v1 == v \cup {current}
            entries == Readdir(f, current)
        IN  IF ~entries.ok
            THEN IF current = basePath /\ entries.code = "ENOENT"
                 THEN WalkResult(q1, v1, sf, "ENOENT", <<>>, <<>>)
                 ELSE WalkResult(q1, v1, sf, "none",
                                 <<LogEntry("readdir-warn", current,
                                            <<Issue("", entries.code)>>, <<>>)>>,
                                 <<>>)
            ELSE LET sc == ScanEntries(f, current, entries.val, q1, sf)
                 IN  WalkResult(sc.queue, v1, sc.skillFiles, "none", <<>>,
                                <<realCurrent.val>>)

\* the errors of realpath and readdir rethrown for whatever path they are
\* about, the base path or not
WalkOnceThrowsForAnyPath(f, basePath, q, v, sf) ==
    LET current == q[Len(q)]
        q1 == Popped(q)
        realCurrent == Realpath(f, current)
    IN  IF ~realCurrent.ok
        THEN WalkResult(q1, v, sf, realCurrent.code, <<>>, <<>>)
        ELSE IF AlreadyVisited(v, realCurrent.val)
        THEN WalkResult(q1, v, sf, "none", <<>>, <<>>)
        ELSE
        LET v1 == v \cup {realCurrent.val}
            entries == Readdir(f, current)
        IN  IF ~entries.ok
            THEN WalkResult(q1, v1, sf, entries.code, <<>>, <<>>)
            ELSE LET sc == ScanEntries(f, current, entries.val, q1, sf)
                 IN  WalkResult(sc.queue, v1, sc.skillFiles, "none", <<>>,
                                <<realCurrent.val>>)

\* One iteration of while (queue.length > 0), from the pop to the end of the
\* loop over the entries.
WalkOnce(f, basePath, q, v, sf) ==
    LET current == q[Len(q)]
        q1 == Popped(q)
        realCurrent == Realpath(f, current)
    IN  IF ~realCurrent.ok
        THEN IF current = basePath /\ realCurrent.code = "ENOENT"
             THEN WalkResult(q1, v, sf, "ENOENT", <<>>, <<>>)
             ELSE WalkResult(q1, v, sf, "none", <<>>, <<>>)
        ELSE IF AlreadyVisited(v, realCurrent.val)
        THEN WalkResult(q1, v, sf, "none", <<>>, <<>>)
        ELSE
        LET v1 == v \cup {realCurrent.val}
            entries == Readdir(f, current)
        IN  IF ~entries.ok
            THEN IF current = basePath /\ entries.code = "ENOENT"
                 THEN WalkResult(q1, v1, sf, "ENOENT", <<>>, <<>>)
                 ELSE WalkResult(q1, v1, sf, "none",
                                 <<LogEntry("readdir-warn", current,
                                            <<Issue("", entries.code)>>, <<>>)>>,
                                 <<>>)
            ELSE LET sc == ScanEntries(f, current, entries.val, q1, sf)
                 IN  WalkResult(sc.queue, v1, sc.skillFiles, "none", <<>>,
                                <<realCurrent.val>>)

RECURSIVE FindSkillFilesFrom(_, _, _, _, _)
FindSkillFilesFrom(f, basePath, q, v, sf) ==
    IF q = <<>> THEN Ok(sf)
    ELSE LET r == WalkOnce(f, basePath, q, v, sf)
         IN  IF r.threw # "none" THEN Err(r.threw)
             ELSE FindSkillFilesFrom(f, basePath, r.queue, r.visited, r.skillFiles)

\* findSkillFiles(basePath) as a whole: the list it returns, or what it throws
FindSkillFiles(f, basePath) == FindSkillFilesFrom(f, basePath, <<basePath>>, {}, <<>>)

RECURSIVE ParseAll(_, _, _)
\* the loop over the matches of one base path: the Skills it pushes
ParseAll(f, ms, basePath) ==
    IF ms = <<>> THEN <<>>
    ELSE LET r == ParseSkill(f, Head(ms), basePath)
         IN  (IF r.ok THEN <<r.skill>> ELSE <<>>) \o ParseAll(f, Tail(ms), basePath)

\* what one base path contributes: the body of the try for that base path
SkillsOfBase(f, basePath) ==
    LET found == FindSkillFiles(f, basePath)
    IN  IF found.ok THEN ParseAll(f, found.val, basePath) ELSE <<>>

-----------------------------------------------------------------------------
(* discoverSkills *)

\* no try/catch around the scan of a base path
NotCaught(err) == FALSE

\* catch (error) { ... }: the clause catches whatever was thrown in the try
Caught(err) == TRUE

RECURSIVE Duplicates(_, _)
\* the loop over skills with the toolNames set: a tool name is pushed every
\* time it is met again
Duplicates(ss, toolNames) ==
    IF ss = <<>> THEN <<>>
    ELSE (IF Head(ss).toolName \in toolNames THEN <<Head(ss).toolName>> ELSE <<>>)
         \o Duplicates(Tail(ss), toolNames \cup {Head(ss).toolName})

\* one call parseSkill(skillPath, baseDir) and whether it gave a Skill
ParseCall(skillPath, baseDir, ok) == [path |-> skillPath, baseDir |-> baseDir, ok |-> ok]

\* the visited set is created once for the pass: findSkillFiles goes on with
\* the real paths the base paths before have left in it
BeginBaseKeepsVisited ==
    /\ pc = "loop"
    /\ bi <= Len(basePaths)
    /\ queue' = <<basePaths[bi]>>
    /\ visited' = visited
    /\ skillFiles' = <<>>
    /\ listed' = <<>>
    /\ pc' = "walk"
    /\ UNCHANGED <<fs, basePaths, bi, matches, mi, skills, origin, foundPath,
                   exc, log, candidates, parsed, outcome>>
    /\ UNCHANGED pluginVars
    /\ UNCHANGED passVars

\* for (const basePath of basePaths): enter the try, call findSkillFiles
BeginBase ==
    /\ pc = "loop"
    /\ bi <= Len(basePaths)
    /\ queue' = <<basePaths[bi]>>
    /\ visited' = {}
    /\ skillFiles' = <<>>
    /\ listed' = <<>>
    /\ pc' = "walk"
    /\ UNCHANGED <<fs, basePaths, bi, matches, mi, skills, origin, foundPath,
                   exc, log, candidates, parsed, outcome>>
    /\ UNCHANGED pluginVars
    /\ UNCHANGED passVars

\* findSkillFiles: one iteration of the while loop
WalkStep ==
    /\ pc = "walk"
    /\ queue # <<>>
    /\ LET r == WalkOnce(fs, basePaths[bi], queue, visited, skillFiles)
       IN  /\ queue' = r.queue
           /\ visited' = r.visited
           /\ skillFiles' = r.skillFiles
           /\ log' = log \o r.logs
           /\ listed' = listed \o r.listed
           /\ IF r.threw # "none"
              THEN pc' = "catch" /\ exc' = r.threw
              ELSE pc' = "walk" /\ exc' = exc
    /\ UNCHANGED <<fs, basePaths, bi, matches, mi, skills, origin, foundPath,
                   candidates, parsed, outcome>>
    /\ UNCHANGED pluginVars
    /\ UNCHANGED passVars

\* findSkillFiles returns skillFiles; the loop over the matches starts
WalkReturn ==
    /\ pc = "walk"
    /\ queue = <<>>
    /\ matches' = skillFiles
    /\ mi' = 1
    /\ pc' = "parse"
    /\ candidates' = candidates
                      \o [i \in 1..Len(skillFiles) |-> [path |-> skillFiles[i], base |-> bi]]
    /\ UNCHANGED <<fs, basePaths, bi, queue, visited, skillFiles, skills,
                   origin, foundPath, exc, log, listed, parsed, outcome>>
    /\ UNCHANGED pluginVars
    /\ UNCHANGED passVars

\* a rejection ends the loop over the matches (break) instead of going on
\* with the next match
ParseStepStopsAtRejection ==
    /\ pc = "parse"
    /\ mi <= Len(matches)
    /\ LET r == ParseSkill(fs, matches[mi], basePaths[bi])
       IN  /\ skills' = IF r.ok THEN Append(skills, r.skill) ELSE skills
           /\ origin' = IF r.ok THEN Append(origin, bi) ELSE origin
           /\ parsed' = Append(parsed, ParseCall(matches[mi], basePaths[bi], r.ok))
           /\ log' = log \o r.logs
           /\ mi' = IF r.ok THEN mi + 1 ELSE Len(matches) + 1
    /\ UNCHANGED <<fs, basePaths, pc, bi, queue, visited, skillFiles, matches,
                   foundPath, exc, listed, candidates, outcome>>
    /\ UNCHANGED pluginVars
    /\ UNCHANGED passVars

\* skills.unshift(skill) in the place of skills.push(skill): the newest
\* Skill goes to the front
ParseStepPrepends ==
    /\ pc = "parse"
    /\ mi <= Len(matches)
    /\ LET r == ParseSkill(fs, matches[mi], basePaths[bi])
       IN  /\ skills' = IF r.ok THEN <<r.skill>> \o skills ELSE skills
           /\ origin' = IF r.ok THEN <<bi>> \o origin ELSE origin
           /\ parsed' = Append(parsed, ParseCall(matches[mi], basePaths[bi], r.ok))
           /\ log' = log \o r.logs
    /\ mi' = mi + 1
    /\ UNCHANGED <<fs, basePaths, pc, bi, queue, visited, skillFiles, matches,
                   foundPath, exc, listed, candidates, outcome>>
    /\ UNCHANGED pluginVars
    /\ UNCHANGED passVars

\* parseSkill without its outer try/catch: a marker that cannot be read or
\* whose header block cannot be parsed throws into discoverSkills
ParseStepRethrows ==
    /\ pc = "parse"
    /\ mi <= Len(matches)
    /\ LET r == ParseSkill(fs, matches[mi], basePaths[bi])
           thrown == ~r.ok /\ r.logs[1].kind = "parse-error"
       IN  /\ skills' = IF r.ok THEN Append(skills, r.skill) ELSE skills
           /\ origin' = IF r.ok THEN Append(origin, bi) ELSE origin
           /\ parsed' = Append(parsed, ParseCall(matches[mi], basePaths[bi], r.ok))
           /\ log' = IF thrown THEN log ELSE log \o r.logs
           /\ pc' = IF thrown THEN "catch" ELSE pc
           /\ exc' = IF thrown THEN r.logs[1].issues[1].msg ELSE exc
    /\ mi' = mi + 1
    /\ UNCHANGED <<fs, basePaths, bi, queue, visited, skillFiles, matches,
                   foundPath, listed, candidates, outcome>>
    /\ UNCHANGED pluginVars
    /\ UNCHANGED passVars

\* parseSkill called with the first base path of the list instead of the
\* one whose traversal yielded the match
ParseStepUsesFirstBase ==
    /\ pc = "parse"
    /\ mi <= Len(matches)
    /\ LET r == ParseSkill(fs, matches[mi], basePaths[1])
       IN  /\ skills' = IF r.ok THEN Append(skills, r.skill) ELSE skills
           /\ origin' = IF r.ok THEN Append(origin, bi) ELSE origin
           /\ parsed' = Append(parsed, ParseCall(matches[mi], basePaths[1], r.ok))
           /\ log' = log \o r.logs
    /\ mi' = mi + 1
    /\ UNCHANGED <<fs, basePaths, pc, bi, queue, visited, skillFiles, matches,
                   foundPath, exc, listed, candidates, outcome>>
    /\ UNCHANGED pluginVars
    /\ UNCHANGED passVars

\* for (const match of matches): parseSkill, and push when it is a Skill
ParseStep ==
    /\ pc = "parse"
    /\ mi <= Len(matches)
    /\ LET r == ParseSkill(fs, matches[mi], basePaths[bi])
       IN  /\ skills' = IF r.ok THEN Append(skills, r.skill) ELSE skills
           /\ origin' = IF r.ok THEN Append(origin, bi) ELSE origin
           /\ parsed' = Append(parsed, ParseCall(matches[mi], basePaths[bi], r.ok))
           /\ log' = log \o r.logs
    /\ mi' = mi + 1
    /\ UNCHANGED <<fs, basePaths, pc, bi, queue, visited, skillFiles, matches,
                   foundPath, exc, listed, candidates, outcome>>
    /\ UNCHANGED pluginVars
    /\ UNCHANGED passVars

\* the matches are exhausted: foundPath = true, next base path
EndBase ==
    /\ pc = "parse"
    /\ mi > Len(matches)
    /\ foundPath' = TRUE
    /\ bi' = bi + 1
    /\ pc' = "loop"
    /\ UNCHANGED <<fs, basePaths, queue, visited, skillFiles, matches, mi,
                   skills, origin, exc, log, listed, candidates, parsed, outcome>>
    /\ UNCHANGED pluginVars
    /\ UNCHANGED passVars

\* a missing base path ends the loop over the base paths
CatchBaseStops ==
    /\ pc = "catch"
    /\ bi' = Len(basePaths) + 1
    /\ pc' = "loop"
    /\ exc' = "none"
    /\ UNCHANGED <<fs, basePaths, queue, visited, skillFiles, matches, mi,
                   skills, origin, foundPath, log, listed, candidates, parsed, outcome>>
    /\ UNCHANGED pluginVars
    /\ UNCHANGED passVars

\* catch (error): ENOENT is expected, anything else is warned about; either
\* way the loop goes on with the next base path
CatchBase ==
    /\ pc = "catch"
    /\ IF Caught(exc)
       THEN /\ log' = IF exc = "ENOENT" THEN log
                      ELSE Append(log, LogEntry("scan-warn", basePaths[bi],
                                                <<Issue("", exc)>>, <<>>))
            /\ bi' = bi + 1
            /\ pc' = "loop"
            /\ outcome' = outcome
       ELSE /\ outcome' = "threw"
            /\ pc' = "done"
            /\ UNCHANGED <<bi, log>>
    /\ exc' = "none"
    /\ UNCHANGED <<fs, basePaths, queue, visited, skillFiles, matches, mi,
                   skills, origin, foundPath, listed, candidates, parsed>>
    /\ UNCHANGED pluginVars
    /\ UNCHANGED passVars

\* the indices of the Skills that no later Skill shares its tool name with
LastOfToolName(ss) ==
    {i \in 1..Len(ss) : \A j \in (i + 1)..Len(ss) : ss[j].toolName # ss[i].toolName}

RECURSIVE KeepAt(_, _, _)
\* the elements of sq at the indices in keep, in order; k is the index of
\* the head of sq
KeepAt(sq, keep, k) ==
    IF sq = <<>> THEN <<>>
    ELSE (IF k \in keep THEN <<Head(sq)>> ELSE <<>>) \o KeepAt(Tail(sq), keep, k + 1)

\* the duplicate detection resolves the collision itself: of the Skills
\* with one tool name only the last is returned
FinishKeepsLast ==
    /\ pc = "loop"
    /\ bi > Len(basePaths)
    /\ LET duplicates == Duplicates(skills, {})
       IN  log' = log
                  \o (IF ~foundPath
                      THEN <<LogEntry("no-directories", <<>>, <<>>, <<>>)>>
                      ELSE <<>>)
                  \o (IF Len(duplicates) > 0
                      THEN <<LogEntry("duplicate-tool-names", <<>>, <<>>, duplicates)>>
                      ELSE <<>>)
    /\ skills' = KeepAt(skills, LastOfToolName(skills), 1)
    /\ origin' = KeepAt(origin, LastOfToolName(skills), 1)
    /\ outcome' = "returned"
    /\ pc' = "done"
    /\ UNCHANGED <<fs, basePaths, bi, queue, visited, skillFiles, matches, mi,
                   foundPath, exc, listed, candidates, parsed>>
    /\ UNCHANGED pluginVars
    /\ UNCHANGED passVars

\* the missing-directories warning decided by skills.length === 0 instead of
\* by foundPath: a pass that found directories and no skill warns as well
FinishWarnsWithoutSkills ==
    /\ pc = "loop"
    /\ bi > Len(basePaths)
    /\ LET duplicates == Duplicates(skills, {})
       IN  log' = log
                  \o (IF Len(skills) = 0
                      THEN <<LogEntry("no-directories", <<>>, <<>>, <<>>)>>
                      ELSE <<>>)
                  \o (IF Len(duplicates) > 0
                      THEN <<LogEntry("duplicate-tool-names", <<>>, <<>>, duplicates)>>
                      ELSE <<>>)
    /\ outcome' = "returned"
    /\ pc' = "done"
    /\ UNCHANGED <<fs, basePaths, bi, queue, visited, skillFiles, matches, mi,
                   skills, origin, foundPath, exc, listed, candidates, parsed>>
    /\ UNCHANGED pluginVars
    /\ UNCHANGED passVars

\* after the loop: the missing-directories warning, the duplicate detection
\* and its warning, return skills
Finish ==
    /\ pc = "loop"
    /\ bi > Len(basePaths)
    /\ LET duplicates == Duplicates(skills, {})
       IN  log' = log
                  \o (IF ~foundPath
                      THEN <<LogEntry("no-directories", <<>>, <<>>, <<>>)>>
                      ELSE <<>>)
                  \o (IF Len(duplicates) > 0
                      THEN <<LogEntry("duplicate-tool-names", <<>>, <<>>, duplicates)>>
                      ELSE <<>>)
    /\ outcome' = "returned"
    /\ pc' = "done"
    /\ UNCHANGED <<fs, basePaths, bi, queue, visited, skillFiles, matches, mi,
                   skills, origin, foundPath, exc, listed, candidates, parsed>>
    /\ UNCHANGED pluginVars
    /\ UNCHANGED passVars

-----------------------------------------------------------------------------
(* SkillsPlugin *)

\* toolCtx of the host's invocations: the session and its agent
ToolContexts ==
    {[sessionID |-> "ses_1", agent |-> "build"],
     [sessionID |-> "ses_2", agent |-> "plan"]}

\* the three base paths of the plugin: the config path, which neither of the
\* others can equal, then the home path and the project path, which are
\* one path when the project directory is the home directory
IsPluginList(bp) == Len(bp) = 3 /\ bp[1] # bp[2] /\ bp[1] # bp[3]

\* const tools = {}
NoTools == [n \in {} |-> NoSkill]

\* tool({description, args: {}, execute}): execute closes over the skill of
\* its iteration of the loop
Tool(skill) == [description |-> skill.description, skill |-> skill]

\* ts[key] = val on a record: a key that is there already is overwritten
Assign(ts, key, val) ==
    [n \in DOMAIN ts \cup {key} |-> IF n = key THEN val ELSE ts[n]]

RECURSIVE PathSegments(_)
PathSegments(p) ==
    IF p = <<>> THEN <<>> ELSE <<"/">> \o Head(p) \o PathSegments(Tail(p))

\* a path as the string it is in the program
PathString(p) == IF p = <<>> THEN <<"/">> ELSE PathSegments(p)

\* `The "${skill.name}" skill is loading\n${skill.name}`
LoadingText(skill) ==
    <<"T", "h", "e", " ", "\"">>
      \o skill.name \o
    <<"\"", " ", "s", "k", "i", "l", "l", " ", "i", "s", " ", "l", "o", "a",
      "d", "i", "n", "g", "\n">>
      \o skill.name

\* `Base directory for this skill: ${skill.fullPath}\n\n${skill.content}`
ContentText(skill) ==
    <<"B", "a", "s", "e", " ", "d", "i", "r", "e", "c", "t", "o", "r", "y",
      " ", "f", "o", "r", " ", "t", "h", "i", "s", " ", "s", "k", "i", "l",
      "l", ":", " ">>
      \o PathString(skill.fullPath) \o <<"\n", "\n">> \o skill.content

\* `Launching skill: ${skill.name}`
LaunchText(skill) ==
    <<"L", "a", "u", "n", "c", "h", "i", "n", "g", " ", "s", "k", "i", "l",
      "l", ":", " ">>
      \o skill.name

\* the request of sendSilentPrompt(text)
Prompt(sessionID, agent, text) ==
    [id |-> sessionID, agent |-> agent, noReply |-> TRUE, text |-> text]

NoCall == [tool |-> <<>>, sessionID |-> "", agent |-> "", awaiting |-> "none"]

Returned(toolName, text) == [tool |-> toolName, ok |-> TRUE, text |-> text]
Threw(toolName) == [tool |-> toolName, ok |-> FALSE, text |-> <<>>]

\* a tool name that is registered already is left alone: the first Skill of
\* a tool name wins
RegisterToolFirstWins ==
    /\ pc = "done"
    /\ outcome = "returned"
    /\ IsPluginList(basePaths)
    /\ plugin = "setup"
    /\ ri <= Len(skills)
    /\ tools' = IF skills[ri].toolName \in DOMAIN tools THEN tools
                ELSE Assign(tools, skills[ri].toolName, Tool(skills[ri]))
    /\ ri' = ri + 1
    /\ UNCHANGED passVars
    /\ UNCHANGED <<fs, basePaths, pc, bi, queue, visited, skillFiles, matches, mi,
                   skills, origin, foundPath, exc, log, listed, candidates, parsed, outcome,
                   plugin, call, prompts, replies>>

\* for (const skill of skills) tools[skill.toolName] = tool({...})
RegisterTool ==
    /\ pc = "done"
    /\ outcome = "returned"
    /\ IsPluginList(basePaths)
    /\ plugin = "setup"
    /\ ri <= Len(skills)
    /\ tools' = Assign(tools, skills[ri].toolName, Tool(skills[ri]))
    /\ ri' = ri + 1
    /\ UNCHANGED passVars
    /\ UNCHANGED <<fs, basePaths, pc, bi, queue, visited, skillFiles, matches, mi,
                   skills, origin, foundPath, exc, log, listed, candidates, parsed, outcome,
                   plugin, call, prompts, replies>>

\* return { tool: tools }
ReturnTools ==
    /\ pc = "done"
    /\ outcome = "returned"
    /\ IsPluginList(basePaths)
    /\ plugin = "setup"
    /\ ri > Len(skills)
    /\ plugin' = "ready"
    /\ UNCHANGED passVars
    /\ UNCHANGED <<fs, basePaths, pc, bi, queue, visited, skillFiles, matches, mi,
                   skills, origin, foundPath, exc, log, listed, candidates, parsed, outcome,
                   ri, tools, call, prompts, replies>>

\* the first sendSilentPrompt is not awaited: execute goes on to the second
\* while the first is still under way
InvokeWithoutAwait ==
    /\ plugin = "ready"
    /\ call = NoCall
    /\ Len(replies) < MaxCalls
    /\ \E toolName \in DOMAIN tools, toolCtx \in ToolContexts :
          call' = [tool |-> toolName, sessionID |-> toolCtx.sessionID,
                   agent |-> toolCtx.agent, awaiting |-> "content"]
    /\ UNCHANGED passVars
    /\ UNCHANGED <<fs, basePaths, pc, bi, queue, visited, skillFiles, matches, mi,
                   skills, origin, foundPath, exc, log, listed, candidates, parsed, outcome,
                   plugin, ri, tools, prompts, replies>>

\* the host calls execute(args, toolCtx) of a registered tool: the first
\* sendSilentPrompt is under way
Invoke ==
    /\ plugin = "ready"
    /\ call = NoCall
    /\ Len(replies) < MaxCalls
    /\ \E toolName \in DOMAIN tools, toolCtx \in ToolContexts :
          call' = [tool |-> toolName, sessionID |-> toolCtx.sessionID,
                   agent |-> toolCtx.agent, awaiting |-> "loading"]
    /\ UNCHANGED passVars
    /\ UNCHANGED <<fs, basePaths, pc, bi, queue, visited, skillFiles, matches, mi,
                   skills, origin, foundPath, exc, log, listed, candidates, parsed, outcome,
                   plugin, ri, tools, prompts, replies>>

\* the first prompt is delivered: the second sendSilentPrompt is under way
LoadingDelivered ==
    /\ call.awaiting = "loading"
    /\ prompts' = Append(prompts, Prompt(call.sessionID, call.agent,
                                         LoadingText(tools[call.tool].skill)))
    /\ call' = [call EXCEPT !.awaiting = "content"]
    /\ UNCHANGED passVars
    /\ UNCHANGED <<fs, basePaths, pc, bi, queue, visited, skillFiles, matches, mi,
                   skills, origin, foundPath, exc, log, listed, candidates, parsed, outcome,
                   plugin, ri, tools, replies>>

\* the rejection of the first prompt is swallowed: execute goes on to the
\* second sendSilentPrompt
LoadingFailsGoesOn ==
    /\ call.awaiting = "loading"
    /\ call' = [call EXCEPT !.awaiting = "content"]
    /\ UNCHANGED passVars
    /\ UNCHANGED <<fs, basePaths, pc, bi, queue, visited, skillFiles, matches, mi,
                   skills, origin, foundPath, exc, log, listed, candidates, parsed, outcome,
                   plugin, ri, tools, prompts, replies>>

\* the first prompt rejects: execute rejects at its first await
LoadingFails ==
    /\ call.awaiting = "loading"
    /\ replies' = Append(replies, Threw(call.tool))
    /\ call' = NoCall
    /\ UNCHANGED passVars
    /\ UNCHANGED <<fs, basePaths, pc, bi, queue, visited, skillFiles, matches, mi,
                   skills, origin, foundPath, exc, log, listed, candidates, parsed, outcome,
                   plugin, ri, tools, prompts>>

\* execute looks its Skill up in skills by tool name when it is called, and
\* finds the first Skill of that name
ContentDeliveredByLookup ==
    /\ call.awaiting = "content"
    /\ LET first == CHOOSE i \in 1..Len(skills) :
                        /\ skills[i].toolName = call.tool
                        /\ \A j \in 1..(i - 1) : skills[j].toolName # call.tool
       IN  /\ prompts' = Append(prompts, Prompt(call.sessionID, call.agent,
                                                ContentText(skills[first])))
           /\ replies' = Append(replies, Returned(call.tool, LaunchText(skills[first])))
    /\ call' = NoCall
    /\ UNCHANGED passVars
    /\ UNCHANGED <<fs, basePaths, pc, bi, queue, visited, skillFiles, matches, mi,
                   skills, origin, foundPath, exc, log, listed, candidates, parsed, outcome,
                   plugin, ri, tools>>

\* the second prompt is delivered: execute returns its confirmation
ContentDelivered ==
    /\ call.awaiting = "content"
    /\ prompts' = Append(prompts, Prompt(call.sessionID, call.agent,
                                         ContentText(tools[call.tool].skill)))
    /\ replies' = Append(replies, Returned(call.tool,
                                           LaunchText(tools[call.tool].skill)))
    /\ call' = NoCall
    /\ UNCHANGED passVars
    /\ UNCHANGED <<fs, basePaths, pc, bi, queue, visited, skillFiles, matches, mi,
                   skills, origin, foundPath, exc, log, listed, candidates, parsed, outcome,
                   plugin, ri, tools>>

\* the second prompt rejects: execute rejects at its second await
ContentFails ==
    /\ call.awaiting = "content"
    /\ replies' = Append(replies, Threw(call.tool))
    /\ call' = NoCall
    /\ UNCHANGED passVars
    /\ UNCHANGED <<fs, basePaths, pc, bi, queue, visited, skillFiles, matches, mi,
                   skills, origin, foundPath, exc, log, listed, candidates, parsed, outcome,
                   plugin, ri, tools, prompts>>

\* what one call of discoverSkills owns: its argument, its position, the
\* variables it declares (skills, foundPath) and those of the findSkillFiles
\* call it awaits (queue, visited, skillFiles), with their histories
Locals ==
    [basePaths |-> basePaths, pc |-> pc, bi |-> bi, queue |-> queue,
     visited |-> visited, skillFiles |-> skillFiles, matches |-> matches,
     mi |-> mi, skills |-> skills, origin |-> origin, foundPath |-> foundPath,
     exc |-> exc, listed |-> listed, candidates |-> candidates,
     parsed |-> parsed, outcome |-> outcome]

\* the locals of a call discoverSkills(bp) that has not run yet
Fresh(bp) ==
    [basePaths |-> bp, pc |-> "loop", bi |-> 1, queue |-> <<>>,
     visited |-> {}, skillFiles |-> <<>>, matches |-> <<>>,
     mi |-> 1, skills |-> <<>>, origin |-> <<>>, foundPath |-> FALSE,
     exc |-> "none", listed |-> <<>>, candidates |-> <<>>,
     parsed |-> <<>>, outcome |-> "running"]

\* there is no second call
NoPass == [Fresh(<<>>) EXCEPT !.pc = "none"]

\* the call that is running has begun
Begun == ~(pc = "loop" /\ bi = 1)

\* the accumulator at module level: the call that goes on finds the Skills
\* the other call has pushed
ResumeSharesSkills ==
    /\ Begun
    /\ other.pc \notin {"done", "none"}
    /\ other' = Locals
    /\ overlap' = (overlap \/ pc # "done")
    /\ basePaths' = other.basePaths
    /\ pc' = other.pc
    /\ bi' = other.bi
    /\ queue' = other.queue
    /\ visited' = other.visited
    /\ skillFiles' = other.skillFiles
    /\ matches' = other.matches
    /\ mi' = other.mi
    /\ foundPath' = other.foundPath
    /\ exc' = other.exc
    /\ listed' = other.listed
    /\ candidates' = other.candidates
    /\ parsed' = other.parsed
    /\ outcome' = other.outcome
    /\ UNCHANGED <<fs, log, skills, origin>>
    /\ UNCHANGED pluginVars

\* the visited set at module level: the call that goes on finds the set as
\* the other call left it
ResumeSharesVisited ==
    /\ Begun
    /\ other.pc \notin {"done", "none"}
    /\ other' = Locals
    /\ overlap' = (overlap \/ pc # "done")
    /\ basePaths' = other.basePaths
    /\ pc' = other.pc
    /\ bi' = other.bi
    /\ queue' = other.queue
    /\ skillFiles' = other.skillFiles
    /\ matches' = other.matches
    /\ mi' = other.mi
    /\ skills' = other.skills
    /\ origin' = other.origin
    /\ foundPath' = other.foundPath
    /\ exc' = other.exc
    /\ listed' = other.listed
    /\ candidates' = other.candidates
    /\ parsed' = other.parsed
    /\ outcome' = other.outcome
    /\ UNCHANGED <<fs, log, visited>>
    /\ UNCHANGED pluginVars

\* The call that is running has reached an await or has returned, and the
\* event loop goes on with the other call (or enters it, when it has not
\* run yet): each call goes on with its own locals; the filesystem and the
\* console are the same for both.
Resume ==
    /\ Begun
    /\ other.pc \notin {"done", "none"}
    /\ other' = Locals
    /\ overlap' = (overlap \/ pc # "done")
    /\ basePaths' = other.basePaths
    /\ pc' = other.pc
    /\ bi' = other.bi
    /\ queue' = other.queue
    /\ visited' = other.visited
    /\ skillFiles' = other.skillFiles
    /\ matches' = other.matches
    /\ mi' = other.mi
    /\ skills' = other.skills
    /\ origin' = other.origin
    /\ foundPath' = other.foundPath
    /\ exc' = other.exc
    /\ listed' = other.listed
    /\ candidates' = other.candidates
    /\ parsed' = other.parsed
    /\ outcome' = other.outcome
    /\ UNCHANGED <<fs, log>>
    /\ UNCHANGED pluginVars

\* two calls of discoverSkills on one event loop
NextPasses ==
    \/ BeginBase
    \/ WalkStep
    \/ WalkReturn
    \/ ParseStep
    \/ EndBase
    \/ CatchBase
    \/ Finish
    \/ Resume

Next ==
    \/ BeginBase
    \/ WalkStep
    \/ WalkReturn
    \/ ParseStep
    \/ EndBase
    \/ CatchBase
    \/ Finish
    \/ RegisterTool
    \/ ReturnTools
    \/ Invoke
    \/ LoadingDelivered
    \/ LoadingFails
    \/ ContentDelivered
    \/ ContentFails

-----------------------------------------------------------------------------
(* Filesystems the discovery is run on *)

NR1 == <<"r", "1">>
NR2 == <<"r", "2">>
NP3 == <<"p", "3">>
NEXT == <<"e", "x", "t">>
NA == <<"a">>
NAB == <<"a", "-", "b">>
NBC == <<"b", "-", "c">>
NC == <<"c">>
NX == <<"x">>
NZ == <<"z">>
NUP == <<"B">>
README_MD == <<"R", "E", "A", "D", "M", "E", ".", "m", "d">>
SKILL_LOWER == <<"s", "k", "i", "l", "l", ".", "m", "d">>
NNOWHERE == <<"n", "o", "w", "h", "e", "r", "e">>

\* the two orders in which a directory's entries are listed
ListingOrder ==
    <<SKILL_MD, NA, NAB, NBC, NC, NX, NZ, NUP, README_MD, SKILL_LOWER>>
Reversed(sq) == [i \in 1..Len(sq) |-> sq[Len(sq) + 1 - i]]

\* the body the test helper createSkillFile writes after the header
Body == <<"\n", "\n", "#", " ", "T", "\n", "\n", "b", " ", "c", ".", "\n">>

\* marker texts by kind, for a marker in a directory named n
MarkerText(kind, n) ==
    CASE kind = "valid" ->
           Text("yaml", Header(Str(n), Str(Repeat("d", DescMin)),
                               Absent, Absent, Absent, Absent), Body)
      [] kind = "short" ->
           Text("yaml", Header(Str(n), Str(Repeat("d", DescMin - 1)),
                               Absent, Absent, Absent, Absent), Body)
      [] kind = "mismatch" ->
           Text("yaml", Header(Str(n \o <<"2">>), Str(Repeat("d", DescMin + 1)),
                               Absent, Absent, Absent, Absent), Body)
      \* valid as well, with another description, a license and another body
      [] kind = "full" ->
           Text("yaml", Header(Str(n), Str(Repeat("e", DescMin + 2)),
                               Str(<<"M", "I", "T">>), Absent, Absent, Absent),
                <<"\n", "x", "\n">>)
      [] kind = "bad" ->
           Text("bad", EmptyHeader, Body)
      [] OTHER ->
           Text("none", EmptyHeader, Body)

MarkerKinds == {"valid", "short", "mismatch"}

Item(path, kind, type, perm, target, text, readable) ==
    [path |-> path, kind |-> kind, type |-> type, perm |-> perm,
     target |-> target, text |-> text, readable |-> readable]

D(path) == Item(path, "dir", "dir", "rwx", <<>>, NoText, TRUE)
Dp(path, perm) == Item(path, "dir", "dir", perm, <<>>, NoText, TRUE)
F(path, text) == Item(path, "file", "file", "rwx", <<>>, text, TRUE)
Fu(path, text) == Item(path, "file", "file", "rwx", <<>>, text, FALSE)
L(path, target) == Item(path, "link", "link", "rwx", target, NoText, TRUE)
\* an entry that is listed but is not there any more when it is descended into
Stale(path, type) == Item(path, "stale", type, "rwx", <<>>, NoText, TRUE)

\* a skill directory with its marker file
SkillDir(dir, kind) == {D(dir), F(Join(dir, SKILL_MD), MarkerText(kind, Basename(dir)))}

ItemAt(items, p) == CHOOSE it \in items : it.path = p

EntriesOf(items, order, d) ==
    LET present == SelectSeq(order, LAMBDA n : \E it \in items : it.path = Join(d, n))
    IN  [i \in 1..Len(present) |->
            Dirent(present[i], ItemAt(items, Join(d, present[i])).type)]

\* the filesystem holding the items, its directories listed in the given order
Build(items, order) ==
    [p \in {it.path : it \in {x \in items : x.kind # "stale"}} |->
        LET it == ItemAt(items, p)
        IN  CASE it.kind = "dir" -> DirNode(EntriesOf(items, order, p), it.perm)
              [] it.kind = "file" -> FileNode(it.text, it.readable)
              [] OTHER -> LinkNode(it.target)]

R1 == <<NR1>>
R2 == <<NR2>>
P3 == <<NP3>>
EXT == <<NEXT>>

\* present in every layout: the first base directory, a second base
\* directory with one valid skill, and a skill outside the base directories
Common == {D(R1), D(R2), D(EXT)} \cup SkillDir(<<NR2, NA>>, "full")

\* the layouts of the first base directory; c gives the kinds of its markers
Layout(id, c) ==
    Common \cup
    CASE id = 1 -> {}
      \* three skills side by side (test: discovers multiple skills)
      [] id = 2 -> SkillDir(<<NR1, NA>>, c[1]) \cup SkillDir(<<NR1, NBC>>, c[2])
                   \cup SkillDir(<<NR1, NC>>, c[3])
      \* skills at depths 1 and 2, one inside another (test: discovers nested skills)
      [] id = 3 -> SkillDir(<<NR1, NA>>, c[1]) \cup SkillDir(<<NR1, NA, NBC>>, c[2])
                   \cup {D(<<NR1, NAB>>)} \cup SkillDir(<<NR1, NAB, NC>>, c[3])
      \* a link to a sibling directory (test: follows symlinked skill directories)
      [] id = 4 -> {D(<<NR1, NX>>), F(<<NR1, NX, README_MD>>, MarkerText("valid", NX)),
                    L(<<NR1, NZ>>, <<NR1, NX>>)}
                   \cup SkillDir(<<NR1, NX, NA>>, c[1]) \cup SkillDir(<<NR1, NC>>, c[2])
      \* links back to an ancestor, to a sibling and to themselves
      [] id = 5 -> SkillDir(<<NR1, NA>>, c[1]) \cup SkillDir(<<NR1, NBC>>, c[2])
                   \cup {L(<<NR1, NA, NC>>, R1), L(<<NR1, NBC, NX>>, <<NR1, NA>>),
                         L(<<NR1, NA, NZ>>, <<NR1, NA, NZ>>), L(P3, P3)}
      \* links to a skill outside the base directory (test: handles symlink to
      \* individual skill directory), under its own and under another name,
      \* a link to its parent in the second base directory, and a link to a
      \* directory whose skill is named like the link
      [] id = 6 -> SkillDir(<<NEXT, NA>>, c[1])
                   \cup {L(<<NR1, NA>>, <<NEXT, NA>>), L(<<NR1, NC>>, <<NEXT, NA>>),
                         L(<<NR1, NBC>>, <<NNOWHERE>>), L(<<NR1, NX>>, <<NR1, NA>>),
                         L(<<NR2, NX>>, EXT),
                         D(<<NEXT, NAB>>),
                         F(<<NEXT, NAB, SKILL_MD>>, MarkerText("valid", NZ)),
                         L(<<NR1, NZ>>, <<NEXT, NAB>>)}
      \* links to files
      [] id = 7 -> SkillDir(<<NEXT, NA>>, c[1])
                   \cup {D(<<NR1, NA>>), L(<<NR1, NA, SKILL_MD>>, <<NEXT, NA, SKILL_MD>>),
                         D(<<NR1, NC>>), L(<<NR1, NC, SKILL_MD>>, <<NEXT, NA>>),
                         D(<<NR1, NBC>>), L(<<NR1, NBC, README_MD>>, <<NEXT, NA, SKILL_MD>>),
                         F(<<NEXT, NA, README_MD>>, MarkerText("valid", NX)),
                         D(<<NR1, NX>>), L(<<NR1, NX, SKILL_MD>>, <<NEXT, NA, README_MD>>),
                         L(P3, R1)}
      \* files that are not markers, an empty directory, a directory named
      \* like the marker, an entry that is neither file, directory nor link
      [] id = 8 -> {D(<<NR1, NA>>), F(<<NR1, NA, README_MD>>, MarkerText("valid", NA)),
                    F(<<NR1, NA, SKILL_LOWER>>, MarkerText("valid", NA)),
                    D(<<NR1, NBC>>), D(<<NR1, NC>>), Stale(<<NR1, NC, NZ>>, "other"),
                    F(P3, MarkerText("valid", NP3))}
                   \cup SkillDir(<<NR1, NC, SKILL_MD>>, c[1])
      \* failing directories and files
      [] id = 9 -> {Dp(<<NR1, NX>>, "noread"),
                    F(<<NR1, NX, SKILL_MD>>, MarkerText("valid", NX)),
                    Dp(<<NR1, NBC>>, "nosearch"),
                    F(<<NR1, NBC, SKILL_MD>>, MarkerText("valid", NBC)),
                    D(<<NR1, NBC, NX>>),
                    Stale(<<NR1, NC>>, "dir"),
                    Dp(<<NR1, NUP>>, "gone"),
                    D(<<NR1, NZ>>),
                    Fu(<<NR1, NZ, SKILL_MD>>, MarkerText("valid", NZ)),
                    D(<<NR1, NAB>>),
                    F(<<NR1, NAB, SKILL_MD>>, MarkerText("bad", NAB)),
                    D(<<NR1, NA>>),
                    L(<<NR1, NA, NZ>>, <<NNOWHERE>>),
                    Stale(<<NR1, NA, SKILL_MD>>, "file"),
                    Dp(P3, "gone")}
                   \cup SkillDir(<<NR1, NX, NC>>, c[1]) \cup SkillDir(<<NR1, NZ, NA>>, c[2])
                   \cup SkillDir(<<NR1, NAB, NC>>, "valid")
                   \cup SkillDir(<<NR1, NA, NBC>>, "valid")
      \* a marker directly in the base directory, and an uppercase name
      [] OTHER -> {F(<<NR1, SKILL_MD>>, MarkerText(c[1], NR1))}
                  \cup SkillDir(<<NR1, NUP>>, c[2])

LayoutIds == 1..10

FileSystems ==
    {Build(Layout(id, c), order) :
        id \in LayoutIds, c \in [1..3 -> MarkerKinds],
        order \in {ListingOrder, Reversed(ListingOrder)}}

\* the base directories a pass is given: present, present, and (in most
\* layouts) missing
BaseDirs == {R1, R2, P3}

\* the lists SkillsPlugin calls discoverSkills with
PluginBaseLists == {bp \in [1..3 -> BaseDirs] : IsPluginList(bp)}

BaseLists == UNION {[1..n -> BaseDirs] : n \in 0..MaxBases} \cup PluginBaseLists

-----------------------------------------------------------------------------
(* The discovery pass *)

Init ==
    /\ fs \in FileSystems
    /\ basePaths \in BaseLists
    /\ pc = "loop"
    /\ bi = 1
    /\ queue = <<>>
    /\ visited = {}
    /\ skillFiles = <<>>
    /\ matches = <<>>
    /\ mi = 1
    /\ skills = <<>>
    /\ origin = <<>>
    /\ foundPath = FALSE
    /\ exc = "none"
    /\ log = <<>>
    /\ listed = <<>>
    /\ candidates = <<>>
    /\ parsed = <<>>
    /\ outcome = "running"
    /\ plugin = "setup"
    /\ ri = 1
    /\ tools = NoTools
    /\ call = NoCall
    /\ prompts = <<>>
    /\ replies = <<>>
    /\ other = NoPass
    /\ overlap = FALSE

Spec == Init /\ [][Next]_vars

\* the filesystems two calls are run on: every layout with valid markers,
\* and with a rejected marker among them
PassFileSystems ==
    {Build(Layout(id, c), ListingOrder) :
        id \in LayoutIds,
        c \in {[k \in 1..3 |-> "valid"],
               [k \in 1..3 |-> IF k = 1 THEN "short" ELSE "valid"]}}

\* the arguments of the two calls
PassLists == {<<R1>>, <<R2, R1>>, <<P3, R1>>}

InitPasses ==
    /\ fs \in PassFileSystems
    /\ basePaths \in PassLists
    /\ other \in {Fresh(bp) : bp \in PassLists}
    /\ overlap = FALSE
    /\ pc = "loop"
    /\ bi = 1
    /\ queue = <<>>
    /\ visited = {}
    /\ skillFiles = <<>>
    /\ matches = <<>>
    /\ mi = 1
    /\ skills = <<>>
    /\ origin = <<>>
    /\ foundPath = FALSE
    /\ exc = "none"
    /\ log = <<>>
    /\ listed = <<>>
    /\ candidates = <<>>
    /\ parsed = <<>>
    /\ outcome = "running"
    /\ plugin = "setup"
    /\ ri = 1
    /\ tools = NoTools
    /\ call = NoCall
    /\ prompts = <<>>
    /\ replies = <<>>

\* two calls of discoverSkills, one after the other or interleaved
PassesSpec == InitPasses /\ [][NextPasses]_vars

-----------------------------------------------------------------------------
(* parseSkill called on its own, as the tests call it *)

NAUP == <<"a", "B">>

\* the directories above a path
Ancestors(p) == {SubSeq(p, 1, k) : k \in 1..(Len(p) - 1)}

ParsePaths ==
    {<<NR1, NA, SKILL_MD>>, <<NR1, NBC, SKILL_MD>>, <<NR1, NAUP, SKILL_MD>>,
     <<NR1, NA, NBC, SKILL_MD>>, <<NR1, SKILL_MD>>,
     <<NR1, NAB, NBC, NA, SKILL_MD>>}

ParseBases == {R1, <<NR1, NA>>}

ParseNames ==
    {Absent, Num, Str(<<>>), Str(NA), Str(NBC), Str(NAUP), Str(NR1),
     Str(<<"a", "\n">>), Str(<<"a", "_", "b">>)}

ParseDescriptions ==
    {Absent, Num} \cup {Str(Repeat("d", n)) : n \in {0, DescMin - 1, DescMin, DescMin + 1}}

MIT == <<"M", "I", "T">>
ToolRead == <<"R", "e", "a", "d">>
KeyVersion == <<"v", "e", "r", "s", "i", "o", "n">>

Optional(license, allowedTools, metadata, extra) ==
    [license |-> license, allowedTools |-> allowedTools, metadata |-> metadata,
     extra |-> extra]

\* the optional fields: none, all of them and well-formed (test: parses skill
\* with all frontmatter fields), an unknown key without and with them, and
\* each one ill-typed
ParseOptionals ==
    {Optional(Absent, Absent, Absent, Absent),
     Optional(Str(MIT), List(<<Str(ToolRead)>>),
              Map(<<[k |-> KeyVersion, val |-> Str(<<"1">>)]>>), Absent),
     Optional(Absent, Absent, Absent, Str(<<"x">>)),
     Optional(Str(MIT), List(<<Str(ToolRead)>>),
              Map(<<[k |-> KeyVersion, val |-> Str(<<"1">>)]>>), Num),
     Optional(Num, Absent, Absent, Absent),
     Optional(Absent, List(<<Str(ToolRead), Num>>), Absent, Absent),
     Optional(Absent, Absent, Map(<<[k |-> KeyVersion, val |-> Num]>>), Absent)}

ParseBodies == {Body, <<>>, <<"\r", "\n", " ", "x", " ", "\t", "y", "\t", " ">>}

\* a header block that parses, one that does not, no header block, and a
\* file that cannot be read
ParseFileStates == {"yaml", "bad", "none", "unreadable"}

ParseFile(path, state, data, post) ==
    LET text == Text(IF state = "unreadable" THEN "yaml" ELSE state, data, post)
    IN  {D(a) : a \in Ancestors(path)}
        \cup {IF state = "unreadable" THEN Fu(path, text) ELSE F(path, text)}

InitParse ==
    /\ \E path \in ParsePaths, base \in ParseBases, state \in ParseFileStates,
          name \in ParseNames, description \in ParseDescriptions,
          opt \in ParseOptionals, post \in ParseBodies :
          /\ fs = Build(ParseFile(path, state,
                                  Header(name, description, opt.license,
                                         opt.allowedTools, opt.metadata, opt.extra),
                                  post),
                        ListingOrder)
          /\ basePaths = <<base>>
          /\ matches = <<path>>
    /\ pc = "parse"
    /\ bi = 1
    /\ mi = 1
    /\ queue = <<>>
    /\ visited = {}
    /\ skillFiles = <<>>
    /\ skills = <<>>
    /\ origin = <<>>
    /\ foundPath = FALSE
    /\ exc = "none"
    /\ log = <<>>
    /\ listed = <<>>
    /\ candidates = <<>>
    /\ parsed = <<>>
    /\ outcome = "running"
    /\ plugin = "setup"
    /\ ri = 1
    /\ tools = NoTools
    /\ call = NoCall
    /\ prompts = <<>>
    /\ replies = <<>>
    /\ other = NoPass
    /\ overlap = FALSE

\* one call of parseSkill(path, base)
ParseSpec == InitParse /\ [][ParseStep]_vars

-----------------------------------------------------------------------------
(* Terms of the properties *)

Range(sq) == {sq[i] : i \in 1..Len(sq)}

\* discoverSkills has ended, and its caller has not gone on yet
Done == pc = "done" /\ plugin = "setup" /\ ri = 1

\* the base path is not there at all
Missing(b) == b \notin DOMAIN fs

RECURSIVE PickFrom(_, _, _)
\* the elements of sq whose tag in tags is i, in order
PickFrom(sq, tags, i) ==
    IF sq = <<>> THEN <<>>
    ELSE (IF Head(tags) = i THEN <<Head(sq)>> ELSE <<>>)
         \o PickFrom(Tail(sq), Tail(tags), i)

\* the Skills in the accumulator that came from the i-th base path
SkillsFrom(i) == PickFrom(skills, origin, i)

NameChars == Lower \cup Digit \cup {Hyphen}

\* a header as the schema wants it, stated field by field
Conforms(h) ==
    /\ h.name.t = "str"
    /\ h.name.v # <<>>
    /\ \A i \in 1..Len(h.name.v) : h.name.v[i] \in NameChars
    /\ h.description.t = "str"
    /\ Len(h.description.v) >= 20
    /\ h.license.t \in {"absent", "str"}
    /\ h.allowedTools.t = "absent"
       \/ (h.allowedTools.t = "list"
           /\ \A i \in 1..Len(h.allowedTools.v) : h.allowedTools.v[i].t = "str")
    /\ h.metadata.t = "absent"
       \/ (h.metadata.t = "map"
           /\ \A i \in 1..Len(h.metadata.v) : h.metadata.v[i].val.t = "str")

\* the path leads to a readable file with a header block
ReadableMarker(p) ==
    LET r == Realpath(fs, p)
    IN  /\ r.ok
        /\ r.val \in DOMAIN fs
        /\ fs[r.val].kind = "file"
        /\ fs[r.val].readable
        /\ fs[r.val].text.fm = "yaml"

HeaderAt(p) == fs[Realpath(fs, p).val].text.data

\* the marker at p is an independently valid skill
ValidMarker(p) ==
    /\ ReadableMarker(p)
    /\ Conforms(HeaderAt(p))
    /\ HeaderAt(p).name.v = Basename(Dirname(p))

\* the i-th candidate was rejected for its description alone
ShortDescriptionAt(p) ==
    /\ ReadableMarker(p)
    /\ HeaderAt(p).description.t = "str"
    /\ Len(HeaderAt(p).description.v) < 20

LogKinds == {log[i].kind : i \in 1..Len(log)}

-----------------------------------------------------------------------------
(* C1 *)

\* C1: whatever the base directories and the filesystem, no exception
\* escapes discoverSkills: an error in flight is on its way to the catch
\* clause, and a pass that has ended has returned its list.
C1_NothingEscapes ==
    /\ outcome # "threw"
    /\ pc = "done" <=> outcome = "returned"
    /\ exc # "none" => pc = "catch"

\* a pass that returned after a missing base directory, an unreadable
\* directory, an unreadable marker, a schema violation or name mismatch, and
\* with a duplicate identifier
C1_Witness ==
    /\ Done
    /\ outcome = "returned"
    /\ \E i \in 1..Len(basePaths) : Realpath(fs, basePaths[i]).ok
                                    /\ ~Readdir(fs, basePaths[i]).ok
    /\ {"readdir-warn", "parse-error", "duplicate-tool-names"} \subseteq LogKinds
    /\ {"invalid-frontmatter", "name-mismatch"} \cap LogKinds # {}

-----------------------------------------------------------------------------
(* C2 *)

\* the real directories the traversal has not listed yet
Unvisited == (DOMAIN fs \cup {<<>>}) \ visited

\* C2: the traversal of a base directory always ends, cycles of symbolic links
\* included. Every iteration of the loop either throws for the missing base
\* directory or strictly decreases the pair (real directories not yet
\* visited, length of the stack) in lexicographic order, and with the stack
\* empty findSkillFiles returns: on a finite filesystem the stack becomes
\* empty after finitely many iterations.
C2_TraversalTerminates ==
    [][pc = "walk" =>
         /\ visited \subseteq DOMAIN fs \cup {<<>>}
         /\ IF queue = <<>>
            THEN pc' = "parse"
            ELSE \/ pc' = "catch" /\ queue' = <<>>
                 \/ /\ pc' = "walk"
                    /\ visited \subseteq visited'
                    /\ \/ Cardinality(Unvisited') < Cardinality(Unvisited)
                       \/ /\ Cardinality(Unvisited') = Cardinality(Unvisited)
                          /\ Len(queue') < Len(queue)]_vars

\* a link that leads back to one of its own ancestors
LinkToAncestor(p) ==
    /\ fs[p].kind = "link"
    /\ Realpath(fs, p).ok
    /\ IsPrefix(Realpath(fs, p).val, Dirname(p))

\* the traversal returned after it met a link back to an ancestor and a link
\* to a sibling it had listed
C2_Witness ==
    /\ pc = "parse"
    /\ queue = <<>>
    /\ \E p \in DOMAIN fs :
          /\ LinkToAncestor(p)
          /\ Dirname(p) \in Range(listed)
          /\ Realpath(fs, p).val \in visited
    /\ \E p \in DOMAIN fs :
          /\ fs[p].kind = "link"
          /\ ~LinkToAncestor(p)
          /\ Dirname(p) \in Range(listed)
          /\ Realpath(fs, p).ok
          /\ Realpath(fs, p).val \in Range(listed)

-----------------------------------------------------------------------------
(* C3 *)

\* C3: every Skill in the accumulator, hence in the returned list, is fully
\* valid: a non-empty name of lowercase letters, digits and hyphens, a
\* description of at least 20 characters, the name equal to the basename of
\* its directory, and the directory the parent of the marker path.
C3_SkillsValid ==
    \A i \in 1..Len(skills) :
        LET sk == skills[i]
        IN  /\ sk.name # <<>>
            /\ \A k \in 1..Len(sk.name) : sk.name[k] \in NameChars
            /\ Len(sk.description) >= 20
            /\ sk.name = Basename(sk.fullPath)
            /\ sk.fullPath = Dirname(sk.path)

\* a returned list of Skills from a pass that rejected a schema violation and
\* a name mismatch
C3_Witness ==
    /\ Done
    /\ Len(skills) >= 2
    /\ {"invalid-frontmatter", "name-mismatch"} \subseteq LogKinds

-----------------------------------------------------------------------------
(* C4 *)

\* C4: a rejected candidate is left out of the result and stops no other
\* candidate: the returned list is, in order, exactly the candidates that
\* are valid on their own, whatever was rejected before or after them.
C4_RejectionIsLocal ==
    Done =>
        [i \in 1..Len(skills) |-> [path |-> skills[i].path, base |-> origin[i]]]
          = SelectSeq(candidates, LAMBDA c : ValidMarker(c.path))

\* one base directory with one valid skill and, yielded before it, one with
\* a too short description: the result is the one valid Skill
C4_Witness ==
    /\ Done
    /\ Len(basePaths) = 1
    /\ Len(candidates) = 2
    /\ ShortDescriptionAt(candidates[1].path)
    /\ ValidMarker(candidates[2].path)
    /\ Len(skills) = 1
    /\ skills[1].path = candidates[2].path

-----------------------------------------------------------------------------
(* C5 *)

\* C5: a missing base directory contributes nothing, raises nothing and
\* stops nothing: at whatever positions the missing ones are, every base
\* directory contributes exactly what it holds, in the order of the list,
\* and a list of missing base directories gives the empty list.
C5_MissingBaseSkipped ==
    Done =>
        /\ outcome = "returned"
        /\ \A k \in 1..(Len(origin) - 1) : origin[k] <= origin[k + 1]
        /\ \A i \in 1..Len(basePaths) :
              /\ Missing(basePaths[i]) => SkillsFrom(i) = <<>>
              /\ SkillsFrom(i) = SkillsOfBase(fs, basePaths[i])
        /\ (\A i \in 1..Len(basePaths) : Missing(basePaths[i])) => skills = <<>>

\* a missing base directory first, then one whose skills are returned
C5_Witness ==
    /\ Done
    /\ Len(basePaths) = 2
    /\ Missing(basePaths[1])
    /\ ~Missing(basePaths[2])
    /\ Len(skills) >= 2
    /\ \A k \in 1..Len(origin) : origin[k] = 2

-----------------------------------------------------------------------------
(* C6 *)

Under(b) == {p \in DOMAIN fs : IsPrefix(b, p)}

\* the subtree of b consists of readable regular directories and regular
\* files, every listed entry being there
RegularTree(b) ==
    /\ b \in DOMAIN fs
    /\ \A p \in Under(b) :
          /\ fs[p].kind \in {"dir", "file"}
          /\ fs[p].kind = "file" => fs[p].readable
          /\ fs[p].kind = "dir" =>
                /\ fs[p].perm = "rwx"
                /\ \A k \in 1..Len(fs[p].entries) :
                      LET e == fs[p].entries[k]
                      IN  /\ Join(p, e.name) \in DOMAIN fs
                          /\ fs[Join(p, e.name)].kind = e.type

\* the valid skills in the subtree of b, by marker path
ValidSkillsUnder(b) ==
    {p \in Under(b) : Basename(p) = SKILL_MD /\ fs[p].kind = "file" /\ ValidMarker(p)}

\* C6: a base directory of regular directories holding N valid skills, at
\* whatever depths, contributes exactly N Skills, one per skill.
C6_AllRegularSkillsFound ==
    Done =>
        \A i \in 1..Len(basePaths) :
            RegularTree(basePaths[i]) =>
                /\ Len(SkillsFrom(i)) = Cardinality(ValidSkillsUnder(basePaths[i]))
                /\ {sk.path : sk \in Range(SkillsFrom(i))} = ValidSkillsUnder(basePaths[i])

\* three valid skills at depths 1 and 2, one of them inside another, all
\* three returned
C6_Witness ==
    /\ Done
    /\ basePaths = <<R1>>
    /\ RegularTree(R1)
    /\ Cardinality(ValidSkillsUnder(R1)) = 3
    /\ \E p, q \in ValidSkillsUnder(R1) : Len(p) # Len(q) /\ IsPrefix(Dirname(p), q)
    /\ Len(skills) = 3

-----------------------------------------------------------------------------
(* Terms of the properties of parseSkill *)

\* parseSkill(matches[1], basePaths[1]) has returned
Parsed == pc = "parse" /\ mi = 2 /\ Len(matches) = 1

ParsedPath == matches[1]

\* what the marker file holds
ParsedText == fs[ParsedPath].text

\* c is s without the whitespace at its two ends
IsTrimOf(c, s) ==
    \E a, b \in 0..Len(s) :
        /\ a + b <= Len(s)
        /\ c = SubSeq(s, a + 1, Len(s) - b)
        /\ \A k \in 1..a : s[k] \in Whitespace
        /\ \A k \in (Len(s) - b + 1)..Len(s) : s[k] \in Whitespace
        /\ c = <<>> \/ (c[1] \notin Whitespace /\ c[Len(c)] \notin Whitespace)

-----------------------------------------------------------------------------
(* C7 *)

\* C7: for a readable marker whose header conforms to the schema and whose
\* name is the basename of its directory, parseSkill returns a Skill with
\* the header's name and description, and with the text after the header
\* block, trimmed at both ends, as content.
C7_ValidMarkerParsed ==
    (Parsed /\ ValidMarker(ParsedPath)) =>
        /\ Len(skills) = 1
        /\ skills[1].name = ParsedText.data.name.v
        /\ skills[1].description = ParsedText.data.description.v
        /\ IsTrimOf(skills[1].content, ParsedText.post)

\* a Skill returned for a marker with every optional field, whose body has
\* whitespace at both ends and inside
C7_Witness ==
    /\ Parsed
    /\ ValidMarker(ParsedPath)
    /\ ParsedText.data.license.t = "str"
    /\ ParsedText.data.allowedTools.t = "list"
    /\ ParsedText.data.metadata.t = "map"
    /\ Len(skills) = 1
    /\ Len(skills[1].content) >= 3
    /\ Len(skills[1].content) + 4 <= Len(ParsedText.post)
    /\ \E k \in 1..Len(skills[1].content) : skills[1].content[k] \in Whitespace
    /\ ParsedText.post[Len(ParsedText.post)] \in Whitespace

-----------------------------------------------------------------------------
(* C8 *)

\* C8: a marker whose description is shorter than 20 characters gives no
\* Skill, whatever its other header fields are.
C8_ShortDescriptionRejected ==
    (/\ Parsed
     /\ ParsedText.fm = "yaml"
     /\ ParsedText.data.description.t = "str"
     /\ Len(ParsedText.data.description.v) < 20) => skills = <<>>

\* a rejection for a description of 19 characters in a header that is
\* otherwise valid and named like its directory
C8_Witness ==
    /\ Parsed
    /\ ReadableMarker(ParsedPath)
    /\ Len(ParsedText.data.description.v) = 19
    /\ ParsedText.data.name = Str(Basename(Dirname(ParsedPath)))
    /\ MatchesNameRegex(ParsedText.data.name.v)
    /\ ParsedText.data.license.t = "str"
    /\ skills = <<>>
    /\ Len(log) = 1
    /\ log[1].kind = "invalid-frontmatter"
    /\ Len(log[1].issues) = 1

-----------------------------------------------------------------------------
(* C9 *)

\* C9: a marker whose header name is not the basename of its parent
\* directory gives no Skill, even with a header that conforms to the schema.
C9_NameMismatchRejected ==
    (/\ Parsed
     /\ ParsedText.fm = "yaml"
     /\ ParsedText.data.name # Str(Basename(Dirname(ParsedPath)))) => skills = <<>>

\* a rejection for the name alone: the header conforms to the schema
C9_Witness ==
    /\ Parsed
    /\ ReadableMarker(ParsedPath)
    /\ Conforms(ParsedText.data)
    /\ ParsedText.data.name.v # Basename(Dirname(ParsedPath))
    /\ skills = <<>>
    /\ Len(log) = 1
    /\ log[1].kind = "name-mismatch"
    /\ log[1].names = <<ParsedText.data.name.v, Basename(Dirname(ParsedPath))>>

-----------------------------------------------------------------------------
(* C10 *)

\* C10: a marker whose header name has a character that is not a lowercase
\* letter, a digit or a hyphen (an uppercase letter, say) gives no Skill,
\* even when the name is the basename of the directory.
C10_BadNameRejected ==
    (/\ Parsed
     /\ ParsedText.fm = "yaml"
     /\ ParsedText.data.name.t = "str"
     /\ \E k \in 1..Len(ParsedText.data.name.v) :
           ParsedText.data.name.v[k] \notin NameChars) => skills = <<>>

\* a rejection for an uppercase letter in a name that is the basename of
\* the directory, the rest of the header being valid
C10_Witness ==
    /\ Parsed
    /\ ReadableMarker(ParsedPath)
    /\ ParsedText.data.name = Str(Basename(Dirname(ParsedPath)))
    /\ \E k \in 1..Len(ParsedText.data.name.v) : ParsedText.data.name.v[k] \in Upper
    /\ Len(ParsedText.data.description.v) >= 20
    /\ skills = <<>>
    /\ Len(log) = 1
    /\ log[1].kind = "invalid-frontmatter"
    /\ Len(log[1].issues) = 1
    /\ log[1].issues[1].field = "name"

-----------------------------------------------------------------------------
(* C11 *)

\* a segment with its hyphens turned into underscores
Munged(seg) == [k \in 1..Len(seg) |-> IF seg[k] = "-" THEN "_" ELSE seg[k]]

RECURSIVE Flattened(_)
\* the segments, each one munged, with an underscore between neighbours
Flattened(segs) ==
    IF Len(segs) = 1 THEN Munged(segs[1])
    ELSE Munged(Head(segs)) \o <<"_">> \o Flattened(Tail(segs))

\* the segments s1..sN between the base directory and the marker file
SegmentsBetween(base, path) == SubSeq(path, Len(base) + 1, Len(path) - 1)

\* C11: for a marker at B/s1/.../sN/SKILL.md with N >= 1 the tool name is
\* "skills_" followed by s1..sN joined with underscores, every hyphen turned
\* into an underscore; neither the name of B nor the marker's filename is
\* part of it.
C11_ToolNameFromSegments ==
    (/\ Parsed
     /\ Len(skills) = 1
     /\ IsPrefix(basePaths[1], ParsedPath)
     /\ Len(ParsedPath) >= Len(basePaths[1]) + 2) =>
        skills[1].toolName
          = <<"s", "k", "i", "l", "l", "s", "_">>
              \o Flattened(SegmentsBetween(basePaths[1], ParsedPath))

\* /r1/a-b/b-c/a/SKILL.md under /r1 gives skills_a_b_b_c_a
C11_Witness ==
    /\ Parsed
    /\ Len(skills) = 1
    /\ basePaths[1] = <<NR1>>
    /\ SegmentsBetween(basePaths[1], ParsedPath) = <<NAB, NBC, NA>>
    /\ skills[1].toolName
         = <<"s", "k", "i", "l", "l", "s", "_", "a", "_", "b", "_", "b", "_", "c", "_", "a">>

-----------------------------------------------------------------------------
(* C12 *)

\* the path of the i-th Skill's marker file relative to its base directory
RelativePath(i) ==
    SubSeq(skills[i].path, Len(basePaths[origin[i]]) + 1, Len(skills[i].path))

\* C12: the tool name depends on the marker's path relative to its base
\* directory and on nothing else: Skills at the same relative path, under
\* the same base directory scanned twice or under different ones, whatever
\* their headers and bodies, have the same tool name.
C12_ToolNameFromRelativePathOnly ==
    \A i, j \in 1..Len(skills) :
        RelativePath(i) = RelativePath(j) => skills[i].toolName = skills[j].toolName

\* two Skills at the same relative path under two base directories, with
\* different descriptions, licenses and contents, and the same tool name
C12_Witness ==
    /\ Done
    /\ \E i, j \in 1..Len(skills) :
          /\ basePaths[origin[i]] # basePaths[origin[j]]
          /\ RelativePath(i) = RelativePath(j)
          /\ skills[i].description # skills[j].description
          /\ skills[i].license # skills[j].license
          /\ skills[i].content # skills[j].content
          /\ skills[i].toolName = skills[j].toolName

-----------------------------------------------------------------------------
(* C13 *)

\* the candidates parseSkill accepts, in the order they were yielded
AcceptedCandidates == SelectSeq(candidates, LAMBDA c : ValidMarker(c.path))

\* the tool name derived for a candidate
ToolNameOf(c) == GenerateToolName(c.path, basePaths[c.base])

\* the tool names the duplicate warning names
ReportedDuplicates ==
    UNION {Range(log[k].names) : k \in {n \in 1..Len(log) : log[n].kind = "duplicate-tool-names"}}

\* C13: accepted skills at different paths whose tool names collide are all
\* in the returned list, each at the place the discovery order gives it; the
\* collision is reported, and nothing is removed, replaced or reordered.
C13_CollidingSkillsKept ==
    Done =>
        \A k, m \in 1..Len(AcceptedCandidates) :
            (/\ k # m
             /\ AcceptedCandidates[k].path # AcceptedCandidates[m].path
             /\ ToolNameOf(AcceptedCandidates[k]) = ToolNameOf(AcceptedCandidates[m])) =>
                /\ k <= Len(skills)
                /\ skills[k].path = AcceptedCandidates[k].path
                /\ origin[k] = AcceptedCandidates[k].base
                /\ skills[k].toolName = ToolNameOf(AcceptedCandidates[k])
                /\ skills[k].toolName \in ReportedDuplicates

\* one base directory with two valid skills, a/b-c and a-b/c, that both get
\* the tool name skills_a_b_c: both are returned and the collision is reported
C13_Witness ==
    /\ Done
    /\ Len(basePaths) = 1
    /\ \E i, j \in 1..Len(skills) :
          /\ i < j
          /\ skills[i].path # skills[j].path
          /\ skills[i].name # skills[j].name
          /\ skills[i].toolName = skills[j].toolName
          /\ skills[i].toolName \in ReportedDuplicates

-----------------------------------------------------------------------------
(* C14 *)

\* every segment of p below b is the name of an entry of the directory that
\* the path up to it leads to: p is a path as the traversal from b sees it
SeenFrom(b, p) ==
    /\ IsPrefix(b, p)
    /\ \A k \in (Len(b) + 1)..Len(p) :
          LET entries == Readdir(fs, SubSeq(p, 1, k - 1))
          IN  /\ entries.ok
              /\ \E n \in 1..Len(entries.val) : entries.val[n].name = p[k]

\* the links on the path p, p itself included
LinksOn(p) ==
    {q \in DOMAIN fs : fs[q].kind = "link" /\ IsPrefix(q, p)}

\* C14: a Skill found by following a symbolic link is reported under the
\* path of the link: the marker path and the directory of every Skill lie
\* under its base directory, as the traversal sees them through the links,
\* also when they resolve to a real path elsewhere.
C14_PathSeenThroughLink ==
    \A i \in 1..Len(skills) :
        /\ SeenFrom(basePaths[origin[i]], skills[i].path)
        /\ skills[i].fullPath = Dirname(skills[i].path)
        /\ IsPrefix(basePaths[origin[i]], skills[i].fullPath)
        /\ Realpath(fs, skills[i].path).ok
        /\ Realpath(fs, skills[i].path).val # skills[i].path =>
              LinksOn(skills[i].path) # {}

\* a Skill found through a link, in the base directory, to a skill directory
\* outside of it: it is reported under the link, and its real path is not
\* under the base directory
C14_Witness ==
    /\ Done
    /\ \E i \in 1..Len(skills) :
          /\ skills[i].fullPath \in DOMAIN fs
          /\ fs[skills[i].fullPath].kind = "link"
          /\ Dirname(skills[i].fullPath) = basePaths[origin[i]]
          /\ ~IsPrefix(basePaths[origin[i]], Realpath(fs, skills[i].path).val)
          /\ IsPrefix(basePaths[origin[i]], skills[i].path)

-----------------------------------------------------------------------------
(* C15 *)

\* the paths of the Skills that came from the i-th base path
PathsFrom(i) == {sk.path : sk \in Range(SkillsFrom(i))}

\* d is a readable regular directory directly in b
RealDirIn(b, d) ==
    /\ d \in DOMAIN fs
    /\ Dirname(d) = b
    /\ fs[d].kind = "dir"
    /\ fs[d].perm = "rwx"

\* l is a symbolic link directly in b that resolves to d
LinkIn(b, l, d) ==
    /\ l \in DOMAIN fs
    /\ Dirname(l) = b
    /\ fs[l].kind = "link"
    /\ Realpath(fs, l) = Ok(d)

\* the valid skills in skill directories of their own below d
SkillsBelow(d) == {m \in ValidSkillsUnder(d) : Len(m) >= Len(d) + 2}

\* the path m, which lies under d, as seen through the link l to d
Through(l, d, m) == l \o SubSeq(m, Len(d) + 1, Len(m))

\* C15: with a real directory holding a valid skill and a symbolic link to
\* that directory side by side in a base directory, discovery returns the
\* skill twice: once under the real directory and once under the link.
C15_RealAndLinkBothReported ==
    Done =>
        \A i \in 1..Len(basePaths) :
            (/\ basePaths[i] \in DOMAIN fs
             /\ fs[basePaths[i]].kind = "dir"
             /\ fs[basePaths[i]].perm = "rwx") =>
                \A d, l \in DOMAIN fs :
                    RealDirIn(basePaths[i], d) /\ LinkIn(basePaths[i], l, d) =>
                        \A m \in SkillsBelow(d) :
                            /\ m \in PathsFrom(i)
                            /\ Through(l, d, m) \in PathsFrom(i)

-----------------------------------------------------------------------------
(* C16 *)

\* SkillsPlugin has returned its tools
Ready == plugin = "ready"

\* C16: registration is last-discovered-wins: the tool registered under a
\* tool name is built from the last Skill of that name in discovery order,
\* so that a Skill of a later base directory, the project's being the last,
\* overrides one of an earlier base directory.
C16_LastDiscoveredWins ==
    Ready =>
        \A i \in 1..Len(skills) :
            /\ skills[i].toolName \in DOMAIN tools
            /\ (\A j \in (i + 1)..Len(skills) : skills[j].toolName # skills[i].toolName) =>
                  /\ tools[skills[i].toolName].skill = skills[i]
                  /\ tools[skills[i].toolName].description = skills[i].description

\* the home directory and the project directory both hold a skill with the
\* tool name skills_a: the registered tool is the project's
C16_Witness ==
    /\ Ready
    /\ \E i, j \in 1..Len(skills) :
          /\ origin[i] = 2
          /\ origin[j] = 3
          /\ basePaths[2] # basePaths[3]
          /\ skills[i].toolName = skills[j].toolName
          /\ skills[i].content # skills[j].content
          /\ tools[skills[i].toolName].skill = skills[j]
          /\ tools[skills[i].toolName].skill # skills[i]
          /\ IsPrefix(basePaths[3], tools[skills[i].toolName].skill.path)

-----------------------------------------------------------------------------
(* C17 *)

\* an invocation of the tool registered as t delivers the name, the
\* directory and the content of the Skill sk
Delivers(t, sk) ==
    /\ tools[t].skill.name = sk.name
    /\ tools[t].skill.fullPath = sk.fullPath
    /\ tools[t].skill.content = sk.content

\* the last Skill in discovery order with the tool name t
LastSkillNamed(t) ==
    skills[CHOOSE i \in 1..Len(skills) :
               /\ skills[i].toolName = t
               /\ \A j \in (i + 1)..Len(skills) : skills[j].toolName # t]

\* the last invocation has returned its confirmation
LastCallReturned == call = NoCall /\ replies # <<>> /\ replies[Len(replies)].ok

\* the two messages and the confirmation of the last invocation carry the
\* name, the directory and the content of sk: the name after the 5
\* characters that open the first message and again at its end, the
\* directory and the content after the 31 characters that open the second,
\* the name after the 17 characters that open the confirmation
LastCallCarries(sk) ==
    LET n == Len(prompts)
        first == prompts[n - 1].text
        second == prompts[n].text
        reply == replies[Len(replies)].text
    IN  /\ n >= 2
        /\ Len(first) = 24 + 2 * Len(sk.name)
        /\ SubSeq(first, 6, 5 + Len(sk.name)) = sk.name
        /\ SubSeq(first, Len(first) - Len(sk.name) + 1, Len(first)) = sk.name
        /\ SubSeq(second, 32, Len(second))
             = PathString(sk.fullPath) \o <<"\n", "\n">> \o sk.content
        /\ SubSeq(reply, 18, Len(reply)) = sk.name

\* C17 as claimed: every Skill of the discovery result has a registered
\* tool, keyed by its tool name, whose invocation delivers that Skill's own
\* name, directory and content.
C17_OneToolPerSkill ==
    Ready =>
        \A i \in 1..Len(skills) :
            /\ skills[i].toolName \in DOMAIN tools
            /\ Delivers(skills[i].toolName, skills[i])

\* C17 as amended: there is one registered tool per tool name of the
\* discovery result; every Skill has a registered tool keyed by its tool
\* name, and an invocation of it delivers the name, the directory and the
\* content of the last Skill in discovery order with that tool name, which
\* is the Skill's own when no later Skill shares its tool name.
C17_OneToolPerToolName ==
    Ready =>
        /\ DOMAIN tools = {skills[i].toolName : i \in 1..Len(skills)}
        /\ \A i \in 1..Len(skills) :
              Delivers(skills[i].toolName, LastSkillNamed(skills[i].toolName))
        /\ LastCallReturned =>
              LastCallCarries(LastSkillNamed(replies[Len(replies)].tool))

\* a tool whose name two Skills share was invoked and has returned: what it
\* delivered is the later Skill's, not the earlier one's
C17_Witness ==
    /\ Ready
    /\ LastCallReturned
    /\ \E i, j \in 1..Len(skills) :
          /\ i < j
          /\ skills[i].toolName = replies[Len(replies)].tool
          /\ skills[j].toolName = replies[Len(replies)].tool
          /\ skills[i].fullPath # skills[j].fullPath
          /\ skills[i].content # skills[j].content
          /\ skills[j] = LastSkillNamed(skills[j].toolName)
          /\ LastCallCarries(skills[j])
          /\ ~LastCallCarries(skills[i])

-----------------------------------------------------------------------------
(* C18 *)

RECURSIVE IsSubsequence(_, _)
\* a is b with some of its elements left out
IsSubsequence(a, b) ==
    IF a = <<>> THEN TRUE
    ELSE IF b = <<>> THEN FALSE
    ELSE IF Head(a) = Head(b) THEN IsSubsequence(Tail(a), Tail(b))
    ELSE IsSubsequence(a, Tail(b))

\* the marker paths the traversal of the i-th base path yielded, in order
YieldedFrom(i) ==
    LET own == SelectSeq(candidates, LAMBDA c : c.base = i)
    IN  [k \in 1..Len(own) |-> own[k].path]

\* the marker paths of the Skills of the i-th base path, in result order
ReturnedFrom(i) == [k \in 1..Len(SkillsFrom(i)) |-> SkillsFrom(i)[k].path]

\* C18: the result is ordered by base directory first: the Skills of an
\* earlier base directory all precede those of a later one, and within a
\* base directory they are in the order in which the traversal yielded
\* their marker files.
C18_OrderedByBase ==
    /\ \A k \in 1..(Len(origin) - 1) : origin[k] <= origin[k + 1]
    /\ \A i \in 1..Len(basePaths) : IsSubsequence(ReturnedFrom(i), YieldedFrom(i))

\* two base directories: the first gave two Skills, with a rejected
\* candidate yielded between or around them, the second gave one
C18_Witness ==
    /\ Done
    /\ Len(basePaths) >= 2
    /\ basePaths[1] # basePaths[2]
    /\ Len(SkillsFrom(1)) = 2
    /\ Len(YieldedFrom(1)) = 3
    /\ Len(SkillsFrom(2)) = 1
    /\ skills[1].path # skills[2].path
    /\ origin[3] = 2

-----------------------------------------------------------------------------
(* C19 *)

\* nothing is there at the base path b when it is scanned: the path leads
\* to no entry, or the directory is removed before it is listed
NotThere(b) ==
    LET r == Realpath(fs, b)
    IN  \/ ~r.ok /\ r.code = "ENOENT"
        \/ r.ok /\ r.val \in DOMAIN fs /\ fs[r.val].perm = "gone"

\* how many times the missing-directories warning was emitted
MissingWarnings == Cardinality({k \in 1..Len(log) : log[k].kind = "no-directories"})

-----------------------------------------------------------------------------
(* C20 *)

-----------------------------------------------------------------------------
(* C21 *)

\* the entry name of the directory d is listed with the given type
ListedAs(d, name, type) ==
    \E k \in 1..Len(fs[d].entries) : fs[d].entries[k] = Dirent(name, type)

\* d is reached from b through regular, readable directories only, each one
\* listed as a directory by the one above it
RegularlyReachable(b, d) ==
    /\ b \in DOMAIN fs
    /\ d \in DOMAIN fs
    /\ IsPrefix(b, d)
    /\ \A k \in Len(b)..Len(d) :
          LET a == SubSeq(d, 1, k)
          IN  /\ a \in DOMAIN fs
              /\ fs[a].kind = "dir"
              /\ fs[a].perm = "rwx"
              /\ k > Len(b) => ListedAs(SubSeq(d, 1, k - 1), d[k], "dir")

\* the directory d holds, as a regular file, a marker that is valid
HoldsValidMarker(d) ==
    /\ Join(d, SKILL_MD) \in DOMAIN fs
    /\ fs[Join(d, SKILL_MD)].kind = "file"
    /\ ListedAs(d, SKILL_MD, "file")
    /\ ValidMarker(Join(d, SKILL_MD))

\* C21: every directory reached from a base directory through regular
\* directories that directly holds a valid marker named like the directory
\* gives a Skill with that marker path among the Skills of that base
\* directory, whatever symbolic links under the base directory point to.
C21_RegularSkillReported ==
    Done =>
        \A i \in 1..Len(basePaths) : \A d \in DOMAIN fs :
            (RegularlyReachable(basePaths[i], d) /\ HoldsValidMarker(d)) =>
                \E k \in 1..Len(skills) :
                    /\ origin[k] = i
                    /\ skills[k].path = Join(d, SKILL_MD)

-----------------------------------------------------------------------------
(* C22 *)

\* the path leads to a directory that can be listed
Listable(p) ==
    /\ Realpath(fs, p).ok
    /\ Stat(fs, p).ok
    /\ Stat(fs, p).val.kind = "dir"
    /\ Readdir(fs, p).ok

\* the path leads to a regular file
LeadsToFile(p) ==
    /\ Realpath(fs, p).ok
    /\ Stat(fs, p).ok
    /\ Stat(fs, p).val.kind = "file"

\* some yielded path is the entry name of the real directory d
YieldedIn(d, name) ==
    \E k \in 1..Len(matches) :
        /\ Basename(matches[k]) = name
        /\ Realpath(fs, Dirname(matches[k])) = Ok(d)

\* the traversal of the current base directory has returned
Walked == pc = "parse"

\* C22: an error on a path that is not the base directory skips that branch
\* and nothing else. Only the missing base directory itself makes the
\* traversal throw; and when the traversal returns, every entry of every
\* directory it listed has been dealt with, whatever failed beside it: a
\* marker file is yielded, a directory (or a link to one) that can be listed
\* is listed.
C22_FailureSkipsOnlyItsBranch ==
    /\ pc = "catch" =>
          \/ Realpath(fs, basePaths[bi]).code = "ENOENT"
          \/ Readdir(fs, basePaths[bi]).code = "ENOENT"
    /\ Walked =>
          /\ Listable(basePaths[bi]) => Realpath(fs, basePaths[bi]).val \in Range(listed)
          /\ \A d \in Range(listed) : \A k \in 1..Len(fs[d].entries) :
                LET e == fs[d].entries[k]
                    p == Join(d, e.name)
                IN  /\ (e.type = "file" /\ e.name = SKILL_MD) => YieldedIn(d, SKILL_MD)
                    /\ (e.type = "link" /\ e.name = SKILL_MD /\ LeadsToFile(p))
                          => YieldedIn(d, SKILL_MD)
                    /\ (e.type \in {"dir", "link"} /\ Listable(p))
                          => Realpath(fs, p).val \in Range(listed)

\* a traversal that returned after an unreadable directory, a directory
\* removed after it was listed, a directory that cannot be searched, a
\* directory removed before it is read and a broken link, with the markers
\* beside them yielded
C22_Witness ==
    /\ Walked
    /\ log # <<>>
    /\ \E d \in Range(listed) : \E k \in 1..Len(fs[d].entries) :
          /\ fs[d].entries[k].type = "dir"
          /\ Join(d, fs[d].entries[k].name) \notin DOMAIN fs
    /\ \E p \in DOMAIN fs : fs[p].kind = "dir" /\ fs[p].perm = "noread"
                            /\ Dirname(p) \in Range(listed)
    /\ \E p \in DOMAIN fs : fs[p].kind = "dir" /\ fs[p].perm = "gone"
                            /\ Dirname(p) \in Range(listed)
    /\ \E p \in DOMAIN fs : fs[p].kind = "dir" /\ fs[p].perm = "nosearch"
                            /\ Dirname(p) \in Range(listed)
    /\ \E p \in DOMAIN fs : fs[p].kind = "link" /\ ~Realpath(fs, p).ok
                            /\ Dirname(p) \in Range(listed)
    /\ Len(matches) >= 3

-----------------------------------------------------------------------------
(* C23 *)

\* the path the next iteration of the traversal pops
Current == queue[Len(queue)]

\* an iteration of the traversal is about to run
Walking == pc = "walk" /\ queue # <<>>

\* the popped path cannot be canonicalised
FailsRealpath == ~Realpath(fs, Current).ok

\* the popped path is canonicalised, is new and cannot be listed
FailsReaddir ==
    /\ Realpath(fs, Current).ok
    /\ Realpath(fs, Current).val \notin visited
    /\ ~Readdir(fs, Current).ok

\* the popped path is listed by this iteration
Lists ==
    /\ Realpath(fs, Current).ok
    /\ Realpath(fs, Current).val \notin visited
    /\ Readdir(fs, Current).ok

\* the links among the entries of the popped directory whose target cannot
\* be resolved or stat-ed
FailingLinks ==
    {Join(Current, e.name) : e \in
        {x \in Range(Readdir(fs, Current).val) :
            /\ x.type = "link"
            /\ \/ ~Realpath(fs, Join(Current, x.name)).ok
               \/ ~Stat(fs, Join(Current, x.name)).ok}}

\* the diagnostics about path p in a list of log entries
About(entries, p) == SelectSeq(entries, LAMBDA en : en.path = p)

\* C23: whenever an iteration skips a path that is not the base
\* directory because it cannot be canonicalised or listed, or skips a link
\* whose target cannot be resolved or stat-ed, it emits a diagnostic for
\* that path.
C23_EveryFailureLogged ==
    [][Walking =>
         /\ (Current # basePaths[bi] /\ (FailsRealpath \/ FailsReaddir))
               => About(SubSeq(log', Len(log) + 1, Len(log')), Current) # <<>>
         /\ Lists => \A p \in FailingLinks :
                        About(SubSeq(log', Len(log) + 1, Len(log')), p) # <<>>]_vars

-----------------------------------------------------------------------------
(* C24 *)

\* the candidate parseSkill is about to be called with
Candidate == matches[mi]

Parsing == pc = "parse" /\ mi <= Len(matches)

\* the path leads to a file that can be read
ReadableFile(p) ==
    LET r == Realpath(fs, p)
    IN  /\ r.ok
        /\ r.val \in DOMAIN fs
        /\ fs[r.val].kind = "file"
        /\ fs[r.val].readable

\* reading the candidate fails, or its header block does not parse
ReadOrParseFails(p) ==
    \/ ~ReadableFile(p)
    \/ fs[Realpath(fs, p).val].text.fm = "bad"

\* the message of the error reading or parsing p fails with
ErrorMessage(p) ==
    LET r == Realpath(fs, p)
    IN  IF ~r.ok THEN r.code
        ELSE IF r.val \notin DOMAIN fs \/ fs[r.val].kind # "file" THEN "EISDIR"
        ELSE IF ~fs[r.val].readable THEN "EACCES"
        ELSE "YAMLException"

\* C24: a marker that cannot be read (unreadable, permission denied on the
\* way, removed after it was listed) or whose header block is malformed is
\* rejected inside parseSkill: one diagnostic with the path and the error's
\* message, no Skill, nothing thrown, and the loop goes on with the next
\* candidate of the same base directory.
C24_ParseFailureIsRejection ==
    [][(Parsing /\ ReadOrParseFails(Candidate)) =>
          /\ pc' = "parse"
          /\ exc' = "none"
          /\ mi' = mi + 1
          /\ bi' = bi
          /\ matches' = matches
          /\ skills' = skills
          /\ log' = Append(log, LogEntry("parse-error", Candidate,
                                         <<Issue("", ErrorMessage(Candidate))>>,
                                         <<>>))]_vars

ParseErrorMessages ==
    {log[k].issues[1].msg : k \in {j \in 1..Len(log) : log[j].kind = "parse-error"}}

\* a pass that returned after it rejected an unreadable marker, one in a
\* directory it may not search, one removed after it was listed and one
\* with a malformed header, and returned Skills yielded after them
C24_Witness ==
    /\ Done
    /\ ParseErrorMessages = {"EACCES", "ENOENT", "YAMLException"}
    /\ \E k \in 1..Len(candidates) : ~ReadableFile(candidates[k].path)
                                     /\ Realpath(fs, candidates[k].path).ok
    /\ \E k \in 1..Len(candidates) :
          Realpath(fs, candidates[k].path).code = "EACCES"
    /\ \E k \in 1..Len(candidates), j \in 1..Len(skills) :
          /\ ReadOrParseFails(candidates[k].path)
          /\ \E n \in (k + 1)..Len(candidates) :
                /\ candidates[n].path = skills[j].path
                /\ candidates[n].base = candidates[k].base

-----------------------------------------------------------------------------
(* C25 *)

\* the fields of the header h that break their rule of the schema
ViolatedFields(h) ==
    {f \in {"name", "description", "license", "allowed-tools", "metadata"} :
        \/ /\ f = "name"
           /\ ~(/\ h.name.t = "str"
                /\ h.name.v # <<>>
                /\ \A i \in 1..Len(h.name.v) : h.name.v[i] \in NameChars)
        \/ /\ f = "description"
           /\ ~(h.description.t = "str" /\ Len(h.description.v) >= 20)
        \/ /\ f = "license"
           /\ h.license.t \notin {"absent", "str"}
        \/ /\ f = "allowed-tools"
           /\ ~(\/ h.allowedTools.t = "absent"
                \/ /\ h.allowedTools.t = "list"
                   /\ \A i \in 1..Len(h.allowedTools.v) : h.allowedTools.v[i].t = "str")
        \/ /\ f = "metadata"
           /\ ~(\/ h.metadata.t = "absent"
                \/ /\ h.metadata.t = "map"
                   /\ \A i \in 1..Len(h.metadata.v) : h.metadata.v[i].val.t = "str")}

\* C25: a header that violates the schema is rejected once, with a
\* diagnostic for every field that is violated and for no other: a header
\* whose name and description are both wrong gets a line for each of them,
\* each with its message.
C25_AllViolationsReported ==
    (/\ Parsed
     /\ ReadableMarker(ParsedPath)
     /\ ViolatedFields(ParsedText.data) # {}) =>
        /\ skills = <<>>
        /\ Len(log) = 1
        /\ log[1].kind = "invalid-frontmatter"
        /\ log[1].path = ParsedPath
        /\ {log[1].issues[k].field : k \in 1..Len(log[1].issues)}
             = ViolatedFields(ParsedText.data)
        /\ \A k \in 1..Len(log[1].issues) : log[1].issues[k].msg # ""

\* one rejection that names the name, the description and an optional field
C25_Witness ==
    /\ Parsed
    /\ ReadableMarker(ParsedPath)
    /\ {"name", "description"} \subseteq ViolatedFields(ParsedText.data)
    /\ Cardinality(ViolatedFields(ParsedText.data)) = 3
    /\ skills = <<>>
    /\ Len(log) = 1
    /\ Len(log[1].issues) >= 3
    /\ \E k \in 1..Len(log[1].issues) : log[1].issues[k].field = "name"
    /\ \E k \in 1..Len(log[1].issues) : log[1].issues[k].field = "description"

-----------------------------------------------------------------------------
(* C26 *)

\* the header's name is not the name of the marker's directory
NameDiffers == ParsedText.data.name # Str(Basename(Dirname(ParsedPath)))

\* C26: the name is compared with the directory only once the schema has
\* been satisfied. A header that violates the schema and whose name differs
\* from the directory is rejected as a schema violation and gets no
\* name-mismatch diagnostic; a name-mismatch diagnostic is only given for a
\* header that satisfies the schema, and carries the declared name and the
\* directory name.
C26_NameCheckedAfterSchema ==
    (Parsed /\ ReadableMarker(ParsedPath)) =>
        /\ (ViolatedFields(ParsedText.data) # {} /\ NameDiffers) =>
              /\ skills = <<>>
              /\ LogKinds = {"invalid-frontmatter"}
        /\ \A k \in 1..Len(log) :
              log[k].kind = "name-mismatch" =>
                  /\ ViolatedFields(ParsedText.data) = {}
                  /\ NameDiffers
                  /\ log[k].names = <<ParsedText.data.name.v,
                                      Basename(Dirname(ParsedPath))>>

\* a header with a well-formed name that is not the directory's and a
\* description that is too short: one rejection, for the description
C26_Witness ==
    /\ Parsed
    /\ ReadableMarker(ParsedPath)
    /\ NameDiffers
    /\ ViolatedFields(ParsedText.data) = {"description"}
    /\ skills = <<>>
    /\ Len(log) = 1
    /\ log[1].kind = "invalid-frontmatter"
    /\ log[1].names = <<>>
    /\ \A k \in 1..Len(log[1].issues) : log[1].issues[k].field = "description"

-----------------------------------------------------------------------------
(* C27 *)

\* the filesystem with the key the schema does not name taken out of the
\* header of the marker at p
WithoutExtra(p) ==
    [fs EXCEPT ![p].text.data.extra = Absent]

\* the header has a key the schema does not name
HasExtra == ParsedText.data.extra.t # "absent"

\* C27: a key the schema does not name changes nothing. A header that is
\* accepted without the key is accepted with it, and the Skill is the same:
\* name, description, license, allowedTools, metadata, content and
\* identifier are those of the header without the key, and the key is not
\* in the Skill.
C27_ExtraKeyIgnored ==
    (/\ Parsed
     /\ ReadableMarker(ParsedPath)
     /\ HasExtra
     /\ ValidMarker(ParsedPath)) =>
        /\ log = <<>>
        /\ Len(skills) = 1
        /\ skills[1] = ParseSkill(WithoutExtra(ParsedPath), ParsedPath, basePaths[1]).skill
        /\ skills[1].name = ParsedText.data.name.v
        /\ skills[1].description = ParsedText.data.description.v
        /\ skills[1].license = ParsedText.data.license
        /\ skills[1].allowedTools = ParsedText.data.allowedTools
        /\ skills[1].metadata = ParsedText.data.metadata
        /\ "extra" \notin DOMAIN skills[1]

\* a Skill with license, allowedTools and metadata from a header that also
\* has a key the schema does not name
C27_Witness ==
    /\ Parsed
    /\ ReadableMarker(ParsedPath)
    /\ HasExtra
    /\ Len(skills) = 1
    /\ skills[1].license.t = "str"
    /\ skills[1].allowedTools.t = "list"
    /\ skills[1].metadata.t = "map"
    /\ Len(skills[1].toolName) > Len(SkillsPrefix)

-----------------------------------------------------------------------------
(* C28 *)

\* C28: the pass never hands parseSkill a base directory that is the
\* marker's own directory, so that no returned Skill has the bare prefix
\* "skills_" as its identifier.
C28_NoBareIdentifier ==
    Done =>
        /\ \A k \in 1..Len(candidates) :
              Dirname(candidates[k].path) # basePaths[candidates[k].base]
        /\ \A k \in 1..Len(skills) : skills[k].toolName # SkillsPrefix

-----------------------------------------------------------------------------
(* C29 *)

\* the indices of the candidates of the i-th base path that parseSkill
\* accepted, in the order they were yielded
AcceptedOf(i) ==
    SelectSeq([k \in 1..Len(candidates) |-> k],
              LAMBDA k : candidates[k].base = i /\ parsed[k].ok)

\* C29: the calls of parseSkill are, one for one and in order, the marker
\* paths the traversals yielded, each with the base directory whose
\* traversal yielded it; and when the pass returns, the Skills of a base
\* directory are the accepted ones among its candidates, in the order in
\* which they were yielded.
C29_EachCandidateParsedOnce ==
    /\ Len(parsed) <= Len(candidates)
    /\ \A k \in 1..Len(parsed) :
          /\ parsed[k].path = candidates[k].path
          /\ parsed[k].baseDir = basePaths[candidates[k].base]
    /\ Done =>
          /\ Len(parsed) = Len(candidates)
          /\ \A i \in 1..Len(basePaths) :
                [k \in 1..Len(SkillsFrom(i)) |-> SkillsFrom(i)[k].path]
                  = [k \in 1..Len(AcceptedOf(i)) |-> candidates[AcceptedOf(i)[k]].path]

\* a pass over two different base directories that returned: the second one
\* yielded a candidate, the first one yielded three, of which the first was
\* rejected and the next two accepted
C29_Witness ==
    /\ Done
    /\ Len(basePaths) = 2
    /\ basePaths[1] # basePaths[2]
    /\ Len(parsed) >= 4
    /\ \E k \in 1..Len(parsed) : parsed[k].baseDir = basePaths[2] /\ parsed[k].ok
    /\ ~parsed[1].ok
    /\ parsed[2].ok
    /\ parsed[3].ok
    /\ candidates[3].base = 1
    /\ Len(SkillsFrom(1)) = 2
    /\ SkillsFrom(1)[1].path = candidates[2].path
    /\ SkillsFrom(1)[2].path = candidates[3].path

-----------------------------------------------------------------------------
(* C30 *)

\* the links to regular files among the entries of the directories listed,
\* as pairs of the real directory and the entry name
FileLinks ==
    {dn \in UNION {{<<d, fs[d].entries[k].name>> : k \in 1..Len(fs[d].entries)} :
                     d \in Range(listed)} :
        /\ Join(dn[1], dn[2]) \in DOMAIN fs
        /\ fs[Join(dn[1], dn[2])].kind = "link"
        /\ LeadsToFile(Join(dn[1], dn[2]))}

\* the name of the file the link leads to
TargetName(dn) == Basename(Realpath(fs, Join(dn[1], dn[2])).val)

\* C30: a symbolic link whose target is a regular file named like the
\* marker is yielded under the link's path, and one whose target is a file
\* with another name is not yielded.
C30_LinkYieldedByTargetName ==
    Walked =>
        \A dn \in FileLinks :
            YieldedIn(dn[1], dn[2]) <=> TargetName(dn) = SKILL_MD

\* C30, amended: a symbolic link whose own name is the marker filename and
\* whose target is a regular file, whatever the name of that file, is
\* yielded under the link's path; a symbolic link with another name is not
\* yielded, even when its target is a file named like the marker.
C30_LinkYieldedByOwnName ==
    Walked =>
        \A dn \in FileLinks :
            /\ YieldedIn(dn[1], dn[2]) <=> dn[2] = SKILL_MD
            /\ YieldedIn(dn[1], dn[2]) =>
                  \E k \in 1..Len(matches) :
                      /\ Basename(matches[k]) = SKILL_MD
                      /\ IsPrefix(basePaths[bi], matches[k])
                      /\ Realpath(fs, matches[k]) = Realpath(fs, Join(dn[1], dn[2]))

\* a traversal that yielded a link named like the marker to a file named
\* like it, yielded another to a file with another name, and left out a
\* link with another name to a file named like the marker
C30_Witness ==
    /\ Walked
    /\ \E dn \in FileLinks :
          dn[2] = SKILL_MD /\ TargetName(dn) = SKILL_MD /\ YieldedIn(dn[1], dn[2])
    /\ \E dn \in FileLinks :
          dn[2] = SKILL_MD /\ TargetName(dn) # SKILL_MD /\ YieldedIn(dn[1], dn[2])
    /\ \E dn \in FileLinks :
          dn[2] # SKILL_MD /\ TargetName(dn) = SKILL_MD /\ ~YieldedIn(dn[1], dn[2])

-----------------------------------------------------------------------------
(* C31 *)

\* the names of the entries of the real directory d
EntryNames(d) == {fs[d].entries[k].name : k \in 1..Len(fs[d].entries)}

\* the directories that hold regular files which are not markers
DirsWithOtherFiles ==
    {d \in DOMAIN fs :
        /\ fs[d].kind = "dir"
        /\ \E k \in 1..Len(fs[d].entries) :
              fs[d].entries[k].type = "file" /\ fs[d].entries[k].name # SKILL_MD}

\* C31: only an entry named exactly SKILL.md is a candidate. Every path
\* that is yielded, handed to parseSkill or carried by a Skill ends in that
\* name, letter for letter, so that a regular file named otherwise
\* (README.md, skill.md) is neither yielded nor parsed nor a Skill; and the
\* directory of every Skill has an entry with that name.
C31_OnlyMarkerNameYielded ==
    /\ \A k \in 1..Len(skillFiles) : Basename(skillFiles[k]) = SKILL_MD
    /\ \A k \in 1..Len(matches) : Basename(matches[k]) = SKILL_MD
    /\ \A k \in 1..Len(candidates) : Basename(candidates[k].path) = SKILL_MD
    /\ \A k \in 1..Len(parsed) : Basename(parsed[k].path) = SKILL_MD
    /\ \A k \in 1..Len(skills) :
          /\ Basename(skills[k].path) = SKILL_MD
          /\ Realpath(fs, skills[k].fullPath).ok
          /\ SKILL_MD \in EntryNames(Realpath(fs, skills[k].fullPath).val)

\* a pass that returned a Skill after it listed a directory with the files
\* README.md and skill.md and a directory with no entry at all, none of
\* which gave a candidate
C31_Witness ==
    /\ Done
    /\ Len(skills) >= 1
    /\ \E d \in DirsWithOtherFiles \cap Range(listed) :
          /\ {README_MD, SKILL_LOWER} \subseteq EntryNames(d)
          /\ \A k \in 1..Len(candidates) : Dirname(candidates[k].path) # d
    /\ \E d \in Range(listed) : fs[d].entries = <<>>

-----------------------------------------------------------------------------
(* C32 *)

\* how many Skills of the accumulator have the identifier t
Occurrences(t) == Cardinality({k \in 1..Len(skills) : skills[k].toolName = t})

\* the identifiers that more than one Skill has
Colliding == {t \in {skills[k].toolName : k \in 1..Len(skills)} : Occurrences(t) >= 2}

\* the duplicate warnings of the pass
DuplicateWarnings == SelectSeq(log, LAMBDA en : en.kind = "duplicate-tool-names")

\* C32: the record reported when the pass returns is the set of the
\* identifiers that more than one Skill of the returned list has. There is
\* a duplicate warning exactly when that set is not empty, and it names
\* each of these identifiers once, however many Skills share it, and no
\* other identifier.
C32_CollisionRecordIsSet ==
    Done =>
        /\ Len(DuplicateWarnings) = IF Colliding = {} THEN 0 ELSE 1
        /\ \A w \in 1..Len(DuplicateWarnings) :
              LET names == DuplicateWarnings[w].names
              IN  /\ Range(names) = Colliding
                  /\ \A t \in Colliding :
                        Cardinality({j \in 1..Len(names) : names[j] = t}) = 1

-----------------------------------------------------------------------------
(* C33 *)

\* both calls of discoverSkills have returned or thrown
BothDone == pc = "done" /\ other.pc = "done"

\* C33: nothing is kept from one discovery pass to the next. When a second
\* call of discoverSkills runs after the first has finished, on the same
\* filesystem and with the same list of base directories, it returns the
\* same Skills in the same order, it yields the same marker files and it
\* lists the same directories: what the first pass had visited makes the
\* second skip nothing.
C33_SecondPassEqualsFirst ==
    (BothDone /\ ~overlap /\ other.basePaths = basePaths) =>
        /\ outcome = other.outcome
        /\ skills = other.skills
        /\ candidates = other.candidates
        /\ listed = other.listed

\* two passes, one after the other, over the same two base directories,
\* each of which visited directories and returned two Skills or more
C33_Witness ==
    /\ BothDone
    /\ ~overlap
    /\ other.basePaths = basePaths
    /\ Len(basePaths) = 2
    /\ Len(other.skills) >= 2
    /\ other.visited # {}
    /\ Len(listed) >= 2

-----------------------------------------------------------------------------
(* C34 *)

RECURSIVE DiscoverAlone(_, _)
\* what discoverSkills(bps) returns when nothing else runs: what each base
\* directory holds, in the order of the list
DiscoverAlone(f, bps) ==
    IF bps = <<>> THEN <<>>
    ELSE SkillsOfBase(f, Head(bps)) \o DiscoverAlone(f, Tail(bps))

\* C34: two discovery passes whose steps interleave at their awaits share
\* neither the visited set nor the stack nor the accumulator: each of
\* them returns, and returns the list it returns when it runs alone on that
\* filesystem.
C34_InterleavedPassAsAlone ==
    /\ pc = "done" =>
          /\ outcome = "returned"
          /\ skills = DiscoverAlone(fs, basePaths)
    /\ other.pc = "done" =>
          /\ other.outcome = "returned"
          /\ other.skills = DiscoverAlone(fs, other.basePaths)

\* two passes that were both under way at some await, each of which
\* returned Skills after it had listed two directories or more
C34_Witness ==
    /\ BothDone
    /\ overlap
    /\ Len(skills) >= 1
    /\ Len(other.skills) >= 1
    /\ Len(listed) >= 2
    /\ Len(other.listed) >= 2

-----------------------------------------------------------------------------
(* C35 *)

\* the two prompts of the invocation that is under way
LoadingPrompt == Prompt(call.sessionID, call.agent, LoadingText(tools[call.tool].skill))
ContentPrompt == Prompt(call.sessionID, call.agent, ContentText(tools[call.tool].skill))

\* the prompt carries the base directory and the content of a Skill
CarriesContent(p) == \E k \in 1..Len(skills) : p.text = ContentText(skills[k])

\* C35: an invocation delivers two silent prompts to the session that
\* invoked the tool, in a fixed order. The prompt with the content is sent
\* only in the step in which the delivery of the loading header completes;
\* it is delivered right after that header, to the same session and agent;
\* and the confirmation "Launching skill: <name>" is returned only when
\* both have been delivered, the header first.
C35_LoadingThenContentThenReply ==
    [][/\ (call'.awaiting = "content" /\ call.awaiting # "content") =>
             /\ call.awaiting = "loading"
             /\ prompts' = Append(prompts, LoadingPrompt)
       /\ (prompts' # prompts /\ CarriesContent(prompts'[Len(prompts')])) =>
             /\ call.awaiting = "content"
             /\ prompts # <<>>
             /\ prompts[Len(prompts)] = LoadingPrompt
             /\ prompts' = Append(prompts, ContentPrompt)
       /\ (replies' # replies /\ replies'[Len(replies')].ok) =>
             /\ replies' = Append(replies, Returned(call.tool,
                                      LaunchText(tools[call.tool].skill)))
             /\ Len(prompts') >= 2
             /\ prompts'[Len(prompts') - 1] = LoadingPrompt
             /\ prompts'[Len(prompts')] = ContentPrompt
             /\ LoadingPrompt.noReply /\ ContentPrompt.noReply
             /\ LoadingPrompt # ContentPrompt
      ]_vars

\* an invocation that returned its confirmation after its two prompts
C35_Witness ==
    /\ replies # <<>>
    /\ replies[Len(replies)].ok
    /\ Len(prompts) >= 2
    /\ CarriesContent(prompts[Len(prompts)])
    /\ ~CarriesContent(prompts[Len(prompts) - 1])
    /\ call = NoCall

-----------------------------------------------------------------------------
(* C36 *)

\* the real path of the marker file of the k-th Skill
RealMarker(k) == Realpath(fs, skills[k].fullPath)

\* the k-th and the l-th Skill come from one real marker file, found from
\* two base directories of the list (or from one that is listed twice)
SameSkillTwice(k, l) == origin[k] # origin[l] /\ RealMarker(k) = RealMarker(l)

\* the i-th and the j-th base directory are one real directory
SameRealBase(i, j) ==
    /\ i # j
    /\ Realpath(fs, basePaths[i]).ok
    /\ Realpath(fs, basePaths[i]) = Realpath(fs, basePaths[j])

\* the identifiers the duplicate warnings name
ReportedCollisions ==
    UNION {Range(DuplicateWarnings[w].names) : w \in 1..Len(DuplicateWarnings)}

\* each base directory is traversed with a visited set of its own: it
\* contributes what it holds, each real marker once, whatever the base
\* directories before it have visited
TraversedPerBase ==
    /\ \A i \in 1..Len(basePaths) : SkillsFrom(i) = SkillsOfBase(fs, basePaths[i])
    /\ \A k, l \in 1..Len(skills) :
          (k # l /\ origin[k] = origin[l]) => RealMarker(k) # RealMarker(l)
    /\ \A i, j \in 1..Len(basePaths) :
          SameRealBase(i, j) =>
              {RealMarker(k) : k \in {n \in 1..Len(skills) : origin[n] = i}}
                  = {RealMarker(k) : k \in {n \in 1..Len(skills) : origin[n] = j}}

-----------------------------------------------------------------------------
(* C37 *)

\* the k-th marker handed to parseSkill lies in a directory that the
\* traversal entered through a symbolic link with that path
ThroughDirLink(p) ==
    /\ Dirname(p) \in DOMAIN fs
    /\ fs[Dirname(p)].kind = "link"
    /\ ReadableMarker(p)

LinkName(p) == Basename(Dirname(p))
RealDirName(p) == Basename(Dirname(Realpath(fs, p).val))

\* the identifier made of the segments of the directory d below the base b
IdentifierBelow(b, d) ==
    SkillsPrefix \o ReplaceHyphens(JoinWith(SubSeq(d, Len(b) + 1, Len(d)), <<Underscore>>))

\* C37: for a marker in a directory reached through a symbolic link, the
\* declared name is compared with the name of the link, not with the name
\* of the directory the link leads to. With a header that satisfies the
\* schema the marker gives a Skill exactly when the declared name is the
\* link's name; that Skill lies at the link's path and its identifier is
\* made of the link's path below the base directory.
C37_NameComparedWithLinkName ==
    /\ \A k \in 1..Len(parsed) :
          (ThroughDirLink(parsed[k].path) /\ Conforms(HeaderAt(parsed[k].path))) =>
              (parsed[k].ok <=>
                  HeaderAt(parsed[k].path).name.v = LinkName(parsed[k].path))
    /\ \A i \in 1..Len(skills) :
          ThroughDirLink(skills[i].path) =>
              /\ skills[i].name = LinkName(skills[i].path)
              /\ skills[i].fullPath = Dirname(skills[i].path)
              /\ skills[i].toolName
                    = IdentifierBelow(basePaths[origin[i]], Dirname(skills[i].path))

\* a pass that accepted a skill named like the link it was reached through
\* and unlike the directory the link leads to, and rejected a skill named
\* like its real directory and unlike the link
C37_Witness ==
    /\ Done
    /\ \E k \in 1..Len(parsed) :
          /\ ThroughDirLink(parsed[k].path)
          /\ parsed[k].ok
          /\ LinkName(parsed[k].path) # RealDirName(parsed[k].path)
    /\ \E k \in 1..Len(parsed) :
          /\ ThroughDirLink(parsed[k].path)
          /\ ~parsed[k].ok
          /\ Conforms(HeaderAt(parsed[k].path))
          /\ HeaderAt(parsed[k].path).name.v = RealDirName(parsed[k].path)

-----------------------------------------------------------------------------
(* C38 *)

\* the directory e lies beneath the directory d, as the traversal sees them
Beneath(d, e) == IsPrefix(d, e) /\ d # e

\* in the list of marker paths, a marker comes before every marker of a
\* directory beneath its own
ParentFirst(paths) ==
    \A k, l \in 1..Len(paths) :
        Beneath(Dirname(paths[k]), Dirname(paths[l])) => k < l

\* C38: within the traversal of one base directory, the marker directly in
\* a directory is yielded before every marker of a directory reached by
\* descending from it: this holds of the list being built, of the list
\* findSkillFiles returns and of the Skills of each base directory, where a
\* Skill precedes every Skill nested beneath it.
C38_ParentMarkerFirst ==
    /\ ParentFirst(skillFiles)
    /\ ParentFirst(matches)
    /\ \A k, l \in 1..Len(skills) :
          (origin[k] = origin[l] /\ Beneath(skills[k].fullPath, skills[l].fullPath))
              => k < l

\* a pass that returned a Skill and a Skill nested beneath it
C38_Witness ==
    /\ Done
    /\ \E k, l \in 1..Len(skills) :
          /\ origin[k] = origin[l]
          /\ Beneath(skills[k].fullPath, skills[l].fullPath)
          /\ k < l

-----------------------------------------------------------------------------
(* C39 *)

\* the step ends the wait for the delivery of the loading header without
\* the header having been delivered
LoadingFailed ==
    /\ call.awaiting = "loading"
    /\ call' # call
    /\ prompts' = prompts

\* C39: when the delivery of the loading header fails, execute is over: the
\* prompt with the content is not sent and nothing is delivered, no
\* confirmation is returned, the host gets the failure as the outcome of
\* the call, and the tools and the Skills are as they were.
C39_LoadingFailureEndsCall ==
    [][LoadingFailed =>
          /\ call' = NoCall
          /\ replies' = Append(replies, Threw(call.tool))
          /\ ~replies'[Len(replies')].ok
          /\ tools' = tools
          /\ skills' = skills
          /\ plugin' = plugin
      ]_vars

\* the one invocation failed at its first prompt: nothing was delivered,
\* and the host got the failure
C39_Witness ==
    /\ replies # <<>>
    /\ ~replies[1].ok
    /\ replies[1].tool \in DOMAIN tools
    /\ prompts = <<>>
    /\ call = NoCall
====
